---- MODULE Spec2Model ----
(***************************************************************************)
(* Model of the checks of the digital.va.gov test suite: the conditional   *)
(* assertion helper handleResponseOrSkip and its call sites, the           *)
(* environment-sensitive UI checks, the sign-in fixture, the user-workflow *)
(* steps that share identifiers, and the batch-probe tests.                *)
(*                                                                         *)
(* A state is what one runner invocation has done so far: the test case    *)
(* that ran last, the inputs it observed (probe response, navigation       *)
(* outcome, process.env) and what it produced (reported status, evaluated  *)
(* assertions, console output).                                            *)
(***************************************************************************)
EXTENDS Integers, Sequences, FiniteSets, TLC

VARIABLES
  pc,      \* "idle" between tests, "running" while a test body awaits its
           \* probe, "awaiting" while a test is suspended in Promise.all,
           \* "requesting" while a workflow body awaits its request,
           \* "awaiting list" / "awaiting detail" in the consistency test
  last,    \* the test case that ran last and its outcome
  input,   \* what that test case observed
  wf,      \* closure variables of 'User Workflow - Complete Journey'
  batch,   \* the probes of the batch-probe test issued last
  unit,    \* the utility exercised by the unit test in progress
  k6,      \* the load-test script in progress and its custom metrics
  page     \* the homepage test in progress: page events and listener

vars == <<pc, last, input, wf, batch, unit, k6, page>>

----------------------------------------------------------------------------
(* Values *)

Undefined == "undefined"

Range(s) == { s[i] : i \in DOMAIN s }

\* HTTP statuses the probed server may answer with.
Statuses == {200, 204, 400, 401, 403, 404, 429, 500}

\* A missing response (the falsy value tested by `if (!response)`); no
\* test hands it to the helper.
NoResponse ==
  [present |-> FALSE, status |-> 0, body |-> {}, dataArr |-> FALSE,
   ctype |-> "absent"]

\* Top-level properties of a response body, and whether body.data is an array.
Bodies ==
  { [props |-> {},                   dataArr |-> FALSE],
    [props |-> {"data"},             dataArr |-> TRUE],
    [props |-> {"data"},             dataArr |-> FALSE],
    [props |-> {"errors"},           dataArr |-> FALSE],
    [props |-> {"error"},            dataArr |-> FALSE],
    [props |-> {"error", "message"}, dataArr |-> FALSE] }

ContentTypes == {"absent", "json", "html"}

\* The awaited request rejects (connection refused, timeout): no response
\* value reaches the test body.
\* Every read of a response field of a request that gave no response is
\* guarded by the test on AwaitFailures; the fields are those of the
\* responses of the single-request and of the two-request tests.
RequestRejected ==
  [present |-> FALSE, status |-> 0, body |-> {}, dataArr |-> FALSE,
   ctype |-> "absent", hasData |-> FALSE, items |-> <<>>, ids |-> <<>>,
   props |-> {}, name |-> Undefined, error |-> "request"]

\* The awaited request is never answered: the test stays suspended at the
\* await until the runner's test timeout fails it.
RequestUnanswered == [RequestRejected EXCEPT !.error = "timeout"]

AwaitFailures == {RequestRejected, RequestUnanswered}

\* What `await request(...)` gives a test: a response, a rejection, or
\* nothing before the runner gives up. The await never gives a falsy value.
ApiResponses ==
  { [present |-> TRUE, status |-> s, body |-> b.props, dataArr |-> b.dataArr,
     ctype |-> c] : s \in Statuses, b \in Bodies, c \in ContentTypes }
  \cup AwaitFailures

NoError == [kind |-> "none", expected |-> 0, received |-> 0]

Thrown(kind) == [kind |-> kind, expected |-> 0, received |-> 0]

\* A console line: its level and the pieces of its text.
Warn(text) == [level |-> "warn", text |-> text]

\* The outcome of a test case.
\*   status  : what the runner reports ("passed", "failed", "skipped")
\*   early   : the body returned (or skipped) before its dependent assertions
\*   helper  : how the last call of handleResponseOrSkip ended
\*   asserts : the expect() calls evaluated, in order
\*   log     : console lines, in order
\*   pending : probes of the batch still in flight when the test ended
Result(test, status, early, helper, asserts, log, error, context, pending) ==
  [test |-> test, status |-> status, early |-> early, helper |-> helper,
   asserts |-> asserts, log |-> log, error |-> error, context |-> context,
   pending |-> pending]

NoResult == Result("none", "none", FALSE, "none", <<>>, <<>>, NoError, "", 0)

\* The outcome of a test whose await gave no response: the rejection is
\* rethrown at the await, or the runner's timeout fails the test with the
\* request still in flight; no statement after the await runs.
AwaitFailed(test, helper, asserts, context, r) ==
  Result(test, "failed", FALSE, helper, asserts, <<>>, Thrown(r.error),
         context, IF r = RequestUnanswered THEN 1 ELSE 0)

\* let veteranId, benefitId, appealId; next is the position of the runner
\* in the describe block and inflight the bodies the runner gave up on
\* whose request is still unanswered.
WfInit == [veteranId |-> Undefined, benefitId |-> Undefined,
           appealId |-> Undefined, next |-> 1, inflight |-> {}]

NoBatch == [test |-> "none", resp |-> <<>>, done |-> {}]

NoInput == [kind |-> "none"]

NoUnit == [kind |-> "none"]

NoRun == [pc |-> "none"]

NoPage == [pc |-> "none"]

\* Bounds of the inputs drawn: counts of elements found on a page, inputs
\* of a form, elements of a list response.
MaxCount == 2

MaxInputs == 6

MaxList == 2

----------------------------------------------------------------------------
(* handleResponseOrSkip and the checks built on it *)

\* handleResponseOrSkip without its 404 branch (a skip rule lost).
handleResponseOrSkip_No404Branch(response, expectedStatus, endpoint) ==
  IF ~response.present
    THEN [ret |-> FALSE, threw |-> FALSE, log |-> <<>>, error |-> NoError]
  ELSE IF response.status = expectedStatus
    THEN [ret |-> TRUE, threw |-> FALSE, log |-> <<>>, error |-> NoError]
  ELSE [ret |-> FALSE, threw |-> TRUE, log |-> <<>>,
        error |-> [kind |-> "expect", expected |-> expectedStatus,
                   received |-> response.status]]

\* handleResponseOrSkip returning false on a status mismatch instead of
\* letting expect() raise.
handleResponseOrSkip_NoExpect(response, expectedStatus, endpoint) ==
  IF ~response.present
    THEN [ret |-> FALSE, threw |-> FALSE, log |-> <<>>, error |-> NoError]
  ELSE IF response.status = 404
    THEN [ret |-> FALSE, threw |-> FALSE,
          log |-> << Warn(<<"Skipping ", endpoint,
                             ": returned 404 Not Found">>) >>,
          error |-> NoError]
  ELSE [ret |-> response.status = expectedStatus, threw |-> FALSE,
        log |-> <<>>, error |-> NoError]

handleResponseOrSkip(response, expectedStatus, endpoint) ==
  IF ~response.present
    THEN [ret |-> FALSE, threw |-> FALSE, log |-> <<>>, error |-> NoError]
  ELSE IF response.status = 404
    THEN [ret |-> FALSE, threw |-> FALSE,
          log |-> << Warn(<<"Skipping ", endpoint,
                             ": returned 404 Not Found">>) >>,
          error |-> NoError]
  ELSE IF response.status = expectedStatus
    THEN [ret |-> TRUE, threw |-> FALSE, log |-> <<>>, error |-> NoError]
  ELSE [ret |-> FALSE, threw |-> TRUE, log |-> <<>>,
        error |-> [kind |-> "expect", expected |-> expectedStatus,
                   received |-> response.status]]

\* The message of the error raised by expect(received).toBe(expected).
ErrorMessage(e) ==
  << "expect(received).toBe(expected)",
     "Expected: ", ToString(e.expected),
     "Received: ", ToString(e.received) >>

\* The checks of comprehensive-api.spec.ts of the shape
\*   probe; if (!handleResponseOrSkip(response, expected, label)) return;
\*   dependent assertions
ApiChecks ==
  [ t \in { "should retrieve veteran benefits",
            "should return 401 for missing authentication",
            "should return 403 for invalid API key",
            "should retrieve health records",
            "should retrieve prescriptions",
            "should retrieve appointments",
            "should list all facilities",
            "should search facilities by location",
            "should list all forms",
            "should search forms by keyword",
            "should reject invalid veteran status",
            "should retrieve veteran appeals",
            "should prevent SQL injection",
            "should prevent XSS attacks",
            "should return 404 for non-existent resource",
            "should handle server errors gracefully" } |->
    CASE t = "should retrieve veteran benefits" ->
           [endpoint |-> "/benefits", expected |-> 200,
            asserts |-> << "content-type toMatch json",
                           "body toHaveProperty data",
                           "Array.isArray(body.data)" >>]
      [] t = "should return 401 for missing authentication" ->
           [endpoint |-> "/benefits (unauthenticated)", expected |-> 401,
            asserts |-> <<>>]
      [] t = "should return 403 for invalid API key" ->
           [endpoint |-> "/benefits (invalid-key)", expected |-> 403,
            asserts |-> <<>>]
      [] t = "should retrieve health records" ->
           [endpoint |-> "/health-records", expected |-> 200,
            asserts |-> << "body toHaveProperty data" >>]
      [] t = "should retrieve prescriptions" ->
           [endpoint |-> "/health-records/prescriptions", expected |-> 200,
            asserts |-> << "Array.isArray(body.data)" >>]
      [] t = "should retrieve appointments" ->
           [endpoint |-> "/health-records/appointments", expected |-> 200,
            asserts |-> << "Array.isArray(body.data)" >>]
      [] t = "should search facilities by location" ->
           [endpoint |-> "/facilities/search", expected |-> 200,
            asserts |-> << "Array.isArray(body.data)" >>]
      [] t = "should search forms by keyword" ->
           [endpoint |-> "/forms/search", expected |-> 200,
            asserts |-> << "Array.isArray(body.data)" >>]
      [] t = "should reject invalid veteran status" ->
           [endpoint |-> "/verification/verify (invalid)", expected |-> 400,
            asserts |-> << "body toHaveProperty errors" >>]
      [] t = "should retrieve veteran appeals" ->
           [endpoint |-> "/appeals", expected |-> 200,
            asserts |-> << "Array.isArray(body.data)" >>]
      [] t = "should prevent SQL injection" ->
           [endpoint |-> "/forms/search (sql-injection)", expected |-> 200,
            asserts |-> << "Array.isArray(body.data)" >>]
      [] t = "should list all facilities" ->
           [endpoint |-> "/facilities", expected |-> 200,
            asserts |-> << "body toHaveProperty data",
                           "Array.isArray(body.data)" >>]
      [] t = "should list all forms" ->
           [endpoint |-> "/forms", expected |-> 200,
            asserts |-> << "Array.isArray(body.data)" >>]
      [] t = "should prevent XSS attacks" ->
           [endpoint |-> "/forms/create (xss)", expected |-> 400,
            asserts |-> << "body toHaveProperty errors" >>]
      [] t = "should return 404 for non-existent resource" ->
           [endpoint |-> "/forms/nonexistent-form-id", expected |-> 404,
            asserts |-> << "body toHaveProperty errors" >>]
      [] t = "should handle server errors gracefully" ->
           [endpoint |-> "/health-records/corrupted", expected |-> 500,
            asserts |-> << "body toHaveProperty error",
                           "body toHaveProperty message" >>] ]

ApiTests == DOMAIN ApiChecks

\* An assertion guarded by `if (response.headers['content-type'])` is
\* evaluated only when the header is there.
Applicable(a, r) ==
  IF a = "content-type toMatch json" THEN r.ctype # "absent" ELSE TRUE

\* Holds with toHaveProperty('errors') passing on any body.
Holds_ErrorsNotRequired(a, r) ==
  CASE a = "content-type toMatch json"   -> r.ctype = "json"
    [] a = "body toHaveProperty data"    -> "data" \in r.body
    [] a = "Array.isArray(body.data)"    -> "data" \in r.body /\ r.dataArr
    [] a = "body toHaveProperty errors"  -> TRUE
    [] a = "body toHaveProperty error"   -> "error" \in r.body
    [] a = "body toHaveProperty message" -> "message" \in r.body

\* Whether the expect() passes on response r.
Holds(a, r) ==
  CASE a = "content-type toMatch json"   -> r.ctype = "json"
    [] a = "body toHaveProperty data"    -> "data" \in r.body
    [] a = "Array.isArray(body.data)"    -> "data" \in r.body /\ r.dataArr
    [] a = "body toHaveProperty errors"  -> "errors" \in r.body
    [] a = "body toHaveProperty error"   -> "error" \in r.body
    [] a = "body toHaveProperty message" -> "message" \in r.body

\* expect() calls run in order; the first failing one throws and ends the test.
RECURSIVE Evaluate(_, _, _)
Evaluate(as, r, evaluated) ==
  IF as = <<>> THEN [status |-> "passed", asserts |-> evaluated]
  ELSE IF ~Applicable(Head(as), r) THEN Evaluate(Tail(as), r, evaluated)
  ELSE IF Holds(Head(as), r)
    THEN Evaluate(Tail(as), r, Append(evaluated, Head(as)))
  ELSE [status |-> "failed", asserts |-> Append(evaluated, Head(as))]

\* The dependent assertions that apply to response r.
DependentAsserts(t, r) ==
  SelectSeq(ApiChecks[t].asserts, LAMBDA a : Applicable(a, r))

\* A check that goes on to its dependent assertions after the helper
\* returned false (the `return` of the call site lost).
ApiCheckResult_NoReturnOnSkip(t, r) ==
  LET c == ApiChecks[t]
      h == handleResponseOrSkip(r, c.expected, c.endpoint)
  IN  IF r \in AwaitFailures
        THEN AwaitFailed(t, "not called", <<>>, c.endpoint, r)
      ELSE IF h.threw
        THEN Result(t, "failed", FALSE, "throw", <<>>, h.log, h.error,
                    c.endpoint, 0)
      ELSE LET e == Evaluate(c.asserts, r, <<>>)
           IN  Result(t, e.status, FALSE, IF h.ret THEN "true" ELSE "false",
                      e.asserts, h.log,
                      IF e.status = "failed"
                        THEN [kind |-> "expect-dependent", expected |-> 0,
                              received |-> 0]
                        ELSE NoError,
                      c.endpoint, 0)

\* One check of the table on what its await gave: a rejected request
\* fails the test with that error before the helper is called.
ApiCheckResult(t, r) ==
  LET c == ApiChecks[t]
      h == handleResponseOrSkip(r, c.expected, c.endpoint)
  IN  IF r \in AwaitFailures
        THEN AwaitFailed(t, "not called", <<>>, c.endpoint, r)
      ELSE IF h.threw
        THEN Result(t, "failed", FALSE, "throw", <<>>, h.log, h.error,
                    c.endpoint, 0)
      ELSE IF ~h.ret
        THEN Result(t, "passed", TRUE, "false", <<>>, h.log, NoError,
                    c.endpoint, 0)
      ELSE LET e == Evaluate(c.asserts, r, <<>>)
           IN  Result(t, e.status, FALSE, "true", e.asserts, h.log,
                      IF e.status = "failed"
                        THEN [kind |-> "expect-dependent", expected |-> 0,
                              received |-> 0]
                        ELSE NoError,
                      c.endpoint, 0)

\* The test files whose tests are followed, each with its tests in source
\* order. The runner loads every test file into a module registry of its
\* own, so nothing is shared between files; within a file it runs the
\* selected tests in source order, and a failed test does not stop the ones
\* after it.
ComprehensiveApiTests ==
  << "should retrieve veteran benefits",
     "should return 401 for missing authentication",
     "should return 403 for invalid API key",
     "should retrieve health records",
     "should retrieve prescriptions",
     "should retrieve appointments",
     "should list all facilities",
     "should search facilities by location",
     "should get facility details",
     "should list all forms",
     "should search forms by keyword",
     "should reject invalid veteran status",
     "should retrieve veteran appeals",
     "should prevent SQL injection",
     "should prevent XSS attacks",
     "should validate CORS headers",
     "should return 404 for non-existent resource",
     "should handle server errors gracefully" >>

IntegrationTests ==
  << "should retrieve veteran information",
     "should retrieve benefits for veteran",
     "should get benefit details",
     "should retrieve appeals",
     "should get appeal details",
     "benefits list should match individual benefit requests" >>

ApiContractTests ==
  << "should validate error response format",
     "should validate CORS headers for browser requests",
     "should enforce authentication on protected endpoints",
     "should validate request timeout behavior" >>

LoginTests ==
  << "should display login form elements",
     "should display identity provider options if applicable",
     "should handle session timeout appropriately" >>

TestFiles ==
  {ComprehensiveApiTests, IntegrationTests, ApiContractTests, LoginTests}

\* The pairs <<s, t>> of tests of one file with s before t.
Precedes ==
  UNION { UNION { { <<f[i], f[j]>> : i \in 1..(j - 1) } : j \in DOMAIN f } :
            f \in TestFiles }

\* The runner is between tests and may go on to test t: no test has run
\* yet in this invocation, or the test that ended last is an earlier test
\* of the file of t.
After(t) ==
  /\ pc = "idle"
  /\ (last = NoResult \/ <<last.test, t>> \in Precedes)

\* The runner enters the body of test t, which issues its probe and
\* suspends at the await (for a UI test: the fixture starts navigating).
\* The test has no verdict yet.
EnterTest(t) ==
  /\ After(t)
  /\ pc' = "running"
  /\ last' = NoResult
  /\ input' = [kind |-> "entered", test |-> t]
  /\ UNCHANGED <<wf, batch, unit, k6, page>>

\* The body of test t is suspended at its await.
Entered(t) == pc = "running" /\ input = [kind |-> "entered", test |-> t]

\* The awaited probe settles, or the runner's timeout expires, and the rest
\* of the body runs: the outcome of the test is recorded.
RunSingle(result, observed) ==
  /\ Entered(result.test)
  /\ pc' = "idle"
  /\ last' = result
  /\ input' = observed
  /\ UNCHANGED <<wf, batch, unit, k6, page>>

\* No test has run yet in this invocation.
Fresh == pc = "idle" /\ last = NoResult

\* The import of the test file fails: the runner has no verdict for test
\* result.test, whose body is never entered, and nothing of the file runs.
FileNotLoaded(result, observed) ==
  /\ Fresh
  /\ last' = result
  /\ input' = observed
  /\ UNCHANGED <<pc, wf, batch, unit, k6, page>>

RunApiCheck(t, r) ==
  RunSingle(ApiCheckResult(t, r),
            [kind |-> "api", response |-> r,
             expected |-> ApiChecks[t].expected,
             endpoint |-> ApiChecks[t].endpoint])

----------------------------------------------------------------------------
(* Page navigation, the sign-in fixture and the UI checks *)

\* process.env as the checks read it: whether CI and RUN_AXE are set.
Envs == [CI : BOOLEAN, RUN_AXE : BOOLEAN]

HomeUrl == "https://digital.va.gov"

SignInUrl == "https://digital.va.gov/sign-in"

DashboardUrl == "https://digital.va.gov/dashboard"

BlankUrl == "about:blank"

ElsewhereUrl == "https://www.va.gov"

VeteransUrl == "https://api.va.gov/v1/veterans"

\* /digital\.va\.gov/ and toContain('digital.va.gov')
MatchesVaHost(url) == url \in {HomeUrl, SignInUrl, DashboardUrl}

\* What page.goto(target) can do: resolve, reject with a navigation error
\* before anything was committed, or reject on its timeout, with the
\* document committed or not.
Navigations(from, target) ==
  { [nav |-> "ok", url |-> target],
    [nav |-> "error", url |-> from],
    [nav |-> "timeout", url |-> target],
    [nav |-> "timeout", url |-> from] }

\* The `page` fixture: goto(sign-in) with its rejection swallowed by
\* .catch(() => {}), then use(page).
FixturePage(n) == [url |-> n.url]

\* 'should display login form elements'
LoginFormElements(n, formCount) ==
  Result("should display login form elements",
         IF formCount >= 0 THEN "passed" ELSE "failed", FALSE, "none",
         <<"formCount toBeGreaterThanOrEqual 0">>, <<>>,
         IF formCount >= 0 THEN NoError ELSE Thrown("expect-dependent"),
         "form", 0)

\* 'should display identity provider options if applicable'
IdentityProviderOptions(n, env, loginGovVisible, mhvVisible) ==
  LET t == "should display identity provider options if applicable"
  IN  IF ~(loginGovVisible \/ mhvVisible) /\ ~env.CI
        THEN Result(t, "skipped", TRUE, "none", <<>>,
                    << Warn(<<"No identity provider buttons visible",
                              " - skipping on local run">>) >>,
                    NoError, "identity provider buttons", 0)
      ELSE Result(t,
                  IF loginGovVisible \/ mhvVisible THEN "passed" ELSE "failed",
                  FALSE, "none",
                  <<"loginGovVisible || mhvVisible toBeTruthy">>, <<>>,
                  IF loginGovVisible \/ mhvVisible
                    THEN NoError ELSE Thrown("expect-dependent"),
                  "identity provider buttons", 0)

\* 'should handle session timeout appropriately': a second goto, its
\* rejection swallowed too, then the URL of the page is matched.
SessionTimeout(n, n2) ==
  LET t == "should handle session timeout appropriately"
  IN  Result(t, IF MatchesVaHost(n2.url) THEN "passed" ELSE "failed",
             FALSE, "none", <<"url toMatch digital.va.gov">>, <<>>,
             IF MatchesVaHost(n2.url)
               THEN NoError ELSE Thrown("expect-dependent"),
             DashboardUrl, 0)

\* A test body whose source text is not well-formed: the argument list of
\* `await page.goto('https://digital.va.gov', {` is never closed, so the
\* parser rejects the file, the body is never entered and the runner has
\* no verdict for the test, whatever the page or the environment.
NotLoaded(t, context) ==
  Result(t, "not loaded", FALSE, "none", <<>>, <<>>, Thrown("SyntaxError"),
         context, 0)

\* 'should not have accessibility violations on homepage': the body is
\* well-formed, the file it is in is not (line 34 and after), so the
\* import of the file fails and the test is never registered.
AxeHomepage(env, axeThrows) ==
  NotLoaded("should not have accessibility violations on homepage",
            "homepage")

\* 'should have proper heading hierarchy': page.goto( opened on line 34 is
\* not closed.
HeadingHierarchy(n, env, headingCount, h1Count) ==
  NotLoaded("should have proper heading hierarchy", "h1")

\* Math.min(inputCount, 5)
AriaInputCap == 5

Min(a, b) == IF a < b THEN a ELSE b

\* 'should have proper ARIA labels for form inputs': well-formed, in the
\* file that fails to load.
AriaLabels(n, env, inputs) ==
  NotLoaded("should have proper ARIA labels for form inputs", "input")

\* 'should have sufficient color contrast': page.goto( opened on line 124
\* is not closed.
ColorContrast(n, env, isArray, count) ==
  NotLoaded("should have sufficient color contrast", "color-contrast")

\* 'should have no automatic redirects without warning': page.goto( opened
\* on line 271 is not closed.
NoAutomaticRedirects(n, env, frameNavigated) ==
  NotLoaded("should have no automatic redirects without warning", "redirect")

\* 'should validate request timeout behavior': goto with a 1 s timeout in
\* try/catch; the catch block asserts that an error was caught.
RequestTimeoutBehavior(n, hasBrowser) ==
  LET t == "should validate request timeout behavior"
  IN  IF ~hasBrowser \/ n.nav = "ok"
        THEN Result(t, "passed", FALSE, "none", <<>>, <<>>, NoError,
                    "/v1/veterans", 0)
      ELSE Result(t, "passed", FALSE, "none", <<"error toBeTruthy">>, <<>>,
                  NoError, "/v1/veterans", 0)

\* 'should validate error response format': the assertions run only under
\* `if (response.status() === 404)`. bodyIsJson: the text of the body
\* parses as JSON; when it does not, `await response.json()` rejects and
\* the test fails before any expect.
ErrorResponseFormat(r, bodyIsJson, errorsIsArray) ==
  LET t == "should validate error response format"
  IN  IF r \in AwaitFailures
        THEN AwaitFailed(t, "none", <<>>, "/v1/veterans/invalid-id", r)
      ELSE IF r.status # 404
        THEN Result(t, "passed", TRUE, "none", <<>>, <<>>, NoError,
                    "/v1/veterans/invalid-id", 0)
      ELSE IF ~bodyIsJson
        THEN Result(t, "failed", FALSE, "none", <<>>, <<>>,
                    Thrown("SyntaxError"), "/v1/veterans/invalid-id", 0)
      ELSE IF "errors" \notin r.body
        THEN Result(t, "failed", FALSE, "none",
                    <<"data toHaveProperty errors">>, <<>>,
                    Thrown("expect-dependent"), "/v1/veterans/invalid-id", 0)
      ELSE Result(t, IF errorsIsArray THEN "passed" ELSE "failed", FALSE,
                  "none",
                  <<"data toHaveProperty errors",
                    "Array.isArray(data.errors) toBeTruthy">>, <<>>,
                  IF errorsIsArray
                    THEN NoError ELSE Thrown("expect-dependent"),
                  "/v1/veterans/invalid-id", 0)

\* 'should enforce authentication on protected endpoints': a request
\* without API key; expect([401, 403]).toContain(response.status()).
EnforceAuthentication(r) ==
  LET t == "should enforce authentication on protected endpoints"
      ok == r.status \in {401, 403}
  IN  IF r \in AwaitFailures
        THEN AwaitFailed(t, "none", <<>>, "/v1/veterans", r)
      ELSE
      Result(t, IF ok THEN "passed" ELSE "failed", FALSE, "none",
             <<"[401, 403] toContain status">>, <<>>,
             IF ok THEN NoError ELSE Thrown("expect-dependent"),
             "/v1/veterans", 0)

----------------------------------------------------------------------------
(* The two CORS checks on an OPTIONS probe *)

\* response.headers['access-control-allow-origin']: absent, empty or an
\* origin.
AllowOrigins == {Undefined, "", "*", HomeUrl}

\* JavaScript truthiness of a header value.
Truthy(v) == v \notin {Undefined, ""}

\* The comprehensive-api check going on to its assertion whatever the
\* header (the `if (!allowOrigin)` block lost).
ValidateCorsHeaders_NoHeaderGuard(r, allowOrigin) ==
  LET t == "should validate CORS headers"
      h == handleResponseOrSkip(r, 200, "OPTIONS /forms")
  IN  IF r \in AwaitFailures
        THEN AwaitFailed(t, "not called", <<>>, "OPTIONS /forms", r)
      ELSE IF h.threw
        THEN Result(t, "failed", FALSE, "throw", <<>>, h.log, h.error,
                    "OPTIONS /forms", 0)
      ELSE IF ~h.ret
        THEN Result(t, "passed", TRUE, "false", <<>>, h.log, NoError,
                    "OPTIONS /forms", 0)
      ELSE Result(t, IF Truthy(allowOrigin) THEN "passed" ELSE "failed",
                  FALSE, "true", <<"allowOrigin toBeTruthy">>, h.log,
                  IF Truthy(allowOrigin)
                    THEN NoError ELSE Thrown("expect-dependent"),
                  "OPTIONS /forms", 0)

\* comprehensive-api 'should validate CORS headers'.
ValidateCorsHeaders(r, allowOrigin) ==
  LET t == "should validate CORS headers"
      h == handleResponseOrSkip(r, 200, "OPTIONS /forms")
  IN  IF r \in AwaitFailures
        THEN AwaitFailed(t, "not called", <<>>, "OPTIONS /forms", r)
      ELSE IF h.threw
        THEN Result(t, "failed", FALSE, "throw", <<>>, h.log, h.error,
                    "OPTIONS /forms", 0)
      ELSE IF ~h.ret
        THEN Result(t, "passed", TRUE, "false", <<>>, h.log, NoError,
                    "OPTIONS /forms", 0)
      ELSE IF ~Truthy(allowOrigin)
        THEN Result(t, "passed", TRUE, "true", <<>>,
                    h.log \o << Warn(<<"CORS header missing on ",
                                       "OPTIONS /forms",
                                       ", skipping assertion">>) >>,
                    NoError, "OPTIONS /forms", 0)
      ELSE Result(t, "passed", FALSE, "true", <<"allowOrigin toBeTruthy">>,
                  h.log, NoError, "OPTIONS /forms", 0)

\* api-contracts 'should validate CORS headers for browser requests':
\* expect(allowOrigin).toBeTruthy() whatever the status.
ValidateCorsForBrowser(r, allowOrigin) ==
  LET t == "should validate CORS headers for browser requests"
  IN  IF r \in AwaitFailures
        THEN AwaitFailed(t, "none", <<>>, "/v1/veterans", r)
      ELSE
      Result(t, IF Truthy(allowOrigin) THEN "passed" ELSE "failed", FALSE,
             "none", <<"allowOrigin toBeTruthy">>, <<>>,
             IF Truthy(allowOrigin)
               THEN NoError ELSE Thrown("expect-dependent"),
             "/v1/veterans", 0)

----------------------------------------------------------------------------
(* 'User Workflow - Complete Journey': five test cases over three shared
   closure variables *)

Ids == {"id-1"}

IdValues == Ids \cup {Undefined}

WfStatuses == {200, 404, 500}

\* Lists of at most n elements, each with an id (or without one).
IdLists(n) == UNION { [1..k -> IdValues] : k \in 0..n }

\* A response with body { data: { id, ...props } }, or without data.
WfItemResponses(propNames) ==
  { [status |-> s, hasData |-> TRUE, id |-> i, ids |-> <<>>, props |-> p] :
      s \in WfStatuses, i \in IdValues, p \in SUBSET propNames }
  \cup { [status |-> s, hasData |-> FALSE, id |-> Undefined, ids |-> <<>>,
          props |-> {}] : s \in WfStatuses }

\* A response with body { data: [ {id}, ... ] }, or without data.
WfListResponses ==
  { [status |-> s, hasData |-> TRUE, id |-> Undefined, ids |-> l,
     props |-> {}] : s \in WfStatuses, l \in IdLists(MaxList) }
  \cup { [status |-> s, hasData |-> FALSE, id |-> Undefined, ids |-> <<>>,
          props |-> {}] : s \in WfStatuses }

WfTests ==
  << "should retrieve veteran information",
     "should retrieve benefits for veteran",
     "should get benefit details",
     "should retrieve appeals",
     "should get appeal details" >>

\* The endpoint each step probes.
WfContext ==
  << "/veterans/current", "/veterans/:id/benefits",
     "/veterans/:id/benefits/:id", "/veterans/:id/appeals",
     "/veterans/:id/appeals/:id" >>

WfResult(k, status, early, asserts, error, url) ==
  [result |-> Result(WfTests[k], status, early, "none", asserts, <<>>, error,
                     WfContext[k], 0),
   url |-> url]

\* Each step gives its outcome, the URL it requested (empty when it issued
\* no request) and the closure variables it leaves.
RetrieveVeteranInformation(w, r) ==
  LET url == <<"/veterans/current">>
  IN  IF r.status # 200
        THEN [out |-> WfResult(1, "failed", FALSE, <<"expect(200)">>,
                               Thrown("expect-status"), url), wf |-> w]
      ELSE IF ~r.hasData
        THEN [out |-> WfResult(1, "failed", FALSE, <<"expect(200)">>,
                               Thrown("TypeError"), url), wf |-> w]
      ELSE [out |-> WfResult(1, IF r.id # Undefined THEN "passed"
                                                     ELSE "failed", FALSE,
                             <<"expect(200)", "veteranId toBeTruthy">>,
                             IF r.id # Undefined
                               THEN NoError ELSE Thrown("expect-dependent"),
                             url),
            wf |-> [w EXCEPT !.veteranId = r.id]]

RetrieveBenefitsForVeteran(w, r) ==
  LET url == <<"/veterans/", w.veteranId, "/benefits">>
  IN  IF r.status # 200
        THEN [out |-> WfResult(2, "failed", FALSE, <<"expect(200)">>,
                               Thrown("expect-status"), url), wf |-> w]
      ELSE IF ~r.hasData
        THEN [out |-> WfResult(2, "failed", FALSE, <<"expect(200)">>,
                               Thrown("TypeError"), url), wf |-> w]
      ELSE IF ~(Len(r.ids) > 0)
        THEN [out |-> WfResult(2, "failed", FALSE,
                               <<"expect(200)",
                                 "data.length toBeGreaterThan 0">>,
                               Thrown("expect-dependent"), url), wf |-> w]
      ELSE [out |-> WfResult(2, "passed", FALSE,
                             <<"expect(200)",
                               "data.length toBeGreaterThan 0">>,
                             NoError, url),
            wf |-> [w EXCEPT !.benefitId = r.ids[1]]]

GetBenefitDetails(w, r) ==
  LET url == <<"/veterans/", w.veteranId, "/benefits/", w.benefitId>>
  IN  IF r.status # 200
        THEN [out |-> WfResult(3, "failed", FALSE, <<"expect(200)">>,
                               Thrown("expect-status"), url), wf |-> w]
      ELSE IF ~r.hasData \/ "description" \notin r.props
        THEN [out |-> WfResult(3, "failed", FALSE,
                               <<"expect(200)",
                                 "data toHaveProperty description">>,
                               Thrown("expect-dependent"), url), wf |-> w]
      ELSE [out |-> WfResult(3, IF "eligibility" \in r.props
                                  THEN "passed" ELSE "failed", FALSE,
                             <<"expect(200)",
                               "data toHaveProperty description",
                               "data toHaveProperty eligibility">>,
                             IF "eligibility" \in r.props
                               THEN NoError ELSE Thrown("expect-dependent"),
                             url),
            wf |-> w]

RetrieveAppeals(w, r) ==
  LET url == <<"/veterans/", w.veteranId, "/appeals">>
  IN  IF r.status # 200
        THEN [out |-> WfResult(4, "failed", FALSE, <<"expect(200)">>,
                               Thrown("expect-status"), url), wf |-> w]
      ELSE IF ~r.hasData
        THEN [out |-> WfResult(4, "failed", FALSE, <<"expect(200)">>,
                               Thrown("TypeError"), url), wf |-> w]
      ELSE [out |-> WfResult(4, "passed", FALSE, <<"expect(200)">>, NoError,
                             url),
            wf |-> IF Len(r.ids) > 0
                     THEN [w EXCEPT !.appealId = r.ids[1]] ELSE w]

GetAppealDetails(w, r) ==
  LET url == <<"/veterans/", w.veteranId, "/appeals/", w.appealId>>
  IN  IF w.appealId = Undefined
        THEN [out |-> WfResult(5, "passed", TRUE, <<>>, NoError, <<>>),
              wf |-> w]
      ELSE IF r.status # 200
        THEN [out |-> WfResult(5, "failed", FALSE, <<"expect(200)">>,
                               Thrown("expect-status"), url), wf |-> w]
      ELSE IF ~r.hasData \/ "status" \notin r.props
        THEN [out |-> WfResult(5, "failed", FALSE,
                               <<"expect(200)", "data toHaveProperty status">>,
                               Thrown("expect-dependent"), url), wf |-> w]
      ELSE [out |-> WfResult(5, IF "timeline" \in r.props
                                  THEN "passed" ELSE "failed", FALSE,
                             <<"expect(200)", "data toHaveProperty status",
                               "data toHaveProperty timeline">>,
                             IF "timeline" \in r.props
                               THEN NoError ELSE Thrown("expect-dependent"),
                             url),
            wf |-> w]

WorkflowStep(k, w, r) ==
  CASE k = 1 -> RetrieveVeteranInformation(w, r)
    [] k = 2 -> RetrieveBenefitsForVeteran(w, r)
    [] k = 3 -> GetBenefitDetails(w, r)
    [] k = 4 -> RetrieveAppeals(w, r)
    [] k = 5 -> GetAppealDetails(w, r)

\* What the server may answer to the request of step k.
WorkflowResponses(k) ==
  CASE k = 1 -> WfItemResponses({})
    [] k = 2 -> WfListResponses
    [] k = 3 -> WfItemResponses({"description", "eligibility"})
    [] k = 4 -> WfListResponses
    [] k = 5 -> WfItemResponses({"status", "timeline"})

\* No response was received by the body.
NoWfResponse ==
  [status |-> 0, hasData |-> FALSE, id |-> Undefined, ids |-> <<>>,
   props |-> {}]

\* The runner executes the selected test cases of the describe block in
\* source order; a test case that is filtered out is passed over, and a
\* failed one does not stop the ones after it. A body first reads the
\* closure variables: step 5 returns at once when appealId is not set, any
\* other body builds its URL from them and awaits the request.
RunWorkflowStep(k) ==
  /\ pc = "idle"
  /\ last = NoResult \/ last.test \in Range(WfTests)
  /\ k >= wf.next
  /\ LET s == WorkflowStep(k, wf, NoWfResponse)
     IN  IF k = 5 /\ wf.appealId = Undefined
           THEN /\ last' = s.out.result
                /\ pc' = "idle"
           ELSE /\ last' = Result(WfTests[k], "running", FALSE, "none", <<>>,
                                  <<>>, NoError, WfContext[k], 1)
                /\ pc' = "requesting"
  /\ input' = [kind |-> "workflow", step |-> k, response |-> NoWfResponse,
               url |-> WorkflowStep(k, wf, NoWfResponse).out.url,
               before |-> wf]
  /\ wf' = [wf EXCEPT !.next = k + 1]
  /\ UNCHANGED <<batch, unit, k6, page>>

\* The awaited request resolves: the assertions run on the response and the
\* assignments write the closure variables as they are now.
WorkflowResponse(r) ==
  /\ pc = "requesting"
  /\ pc' = "idle"
  /\ last' = WorkflowStep(input.step, input.before, r).out.result
  /\ input' = [input EXCEPT !.response = r]
  /\ wf' = [WorkflowStep(input.step, wf, r).wf
              EXCEPT !.next = wf.next, !.inflight = wf.inflight]
  /\ UNCHANGED <<batch, unit, k6, page>>

\* The awaited request rejects (connection refused): the body throws at
\* the await.
WorkflowRequestRejects ==
  /\ pc = "requesting"
  /\ pc' = "idle"
  /\ last' = Result(last.test, "failed", FALSE, "none", <<>>, <<>>,
                    Thrown("request"), last.context, 0)
  /\ UNCHANGED <<input, wf, batch, unit, k6, page>>

\* The runner's test timeout expires while the body awaits: the test is
\* reported failed and the runner goes on, the request staying in flight.
WorkflowTimeout ==
  /\ pc = "requesting"
  /\ pc' = "idle"
  /\ last' = Result(last.test, "failed", FALSE, "none", <<>>, <<>>,
                    Thrown("timeout"), last.context, 1)
  /\ wf' = [wf EXCEPT !.inflight = @ \cup {input.step}]
  /\ UNCHANGED <<input, batch, unit, k6, page>>

\* The answer to the request of a body the runner gave up on arrives, while
\* the runner is between bodies or another body awaits: the abandoned body
\* resumes and its assignments write the closure variables; its verdict
\* was already reported.
LateWorkflowResponse(k, r) ==
  /\ k \in wf.inflight
  /\ wf' = [WorkflowStep(k, wf, r).wf
              EXCEPT !.next = wf.next, !.inflight = wf.inflight \ {k}]
  /\ UNCHANGED <<pc, last, input, batch, unit, k6, page>>

----------------------------------------------------------------------------
(* 'Data Consistency Tests': a list probe, then a detail probe by the id of
   the list's first element *)

Names == {Undefined, "A", "B"}

\* Bound of the length of body.data in a list response.
MaxItems == 2

\* body.data of a list response with k elements { id, name }: the ids are
\* distinct, any element may lack a name.
ListItems(k) ==
  { [i \in 1..k |-> [id |-> <<"benefit", i>>, name |-> names[i]]] :
      names \in [1..k -> Names] }

\* A list response: status and body { data: [...] }, or a body without data.
ListResponses ==
  { [status |-> s, hasData |-> TRUE, items |-> l] :
      s \in WfStatuses, l \in UNION { ListItems(k) : k \in 0..MaxItems } }
  \cup { [status |-> s, hasData |-> FALSE, items |-> <<>>] :
           s \in WfStatuses }

\* A detail response: status and body { data: { name } }, or without data.
DetailResponses ==
  { [status |-> s, hasData |-> TRUE, name |-> n] :
      s \in WfStatuses, n \in Names }
  \cup { [status |-> s, hasData |-> FALSE, name |-> Undefined] :
           s \in WfStatuses }

\* No detail request was issued.
NoDetail == [status |-> 0, hasData |-> FALSE, name |-> Undefined]

\* body.data[0] read from the last element of the list.
FirstElement_Last(items) == items[Len(items)]

\* listResponse.body.data[0]
FirstElement(items) == items[1]

\* No list response yet.
NoList == [status |-> 0, hasData |-> FALSE, items |-> <<>>]

ConsistencyTest == "benefits list should match individual benefit requests"

ConsistencyResult(status, asserts, error, pending) ==
  Result(ConsistencyTest, status, FALSE, "none", asserts, <<>>, error,
         "/benefits", pending)

\* Lines 71-76, from the settling of the first await to the second request:
\* .expect(200) rejects on any other status, data[0].id throws on a body
\* without a first element; otherwise the detail request is issued with
\* the id of the first element. `requests` are the paths requested so far.
BenefitsList(l) ==
  IF l \in AwaitFailures
    THEN [result |-> AwaitFailed(ConsistencyTest, "none", <<>>, "/benefits",
                                 l),
          requests |-> << <<"/benefits">> >>]
  ELSE IF l.status # 200
    THEN [result |-> ConsistencyResult("failed", <<"expect(200)">>,
                                       Thrown("expect-status"), 0),
          requests |-> << <<"/benefits">> >>]
  ELSE IF ~l.hasData \/ l.items = <<>>
    THEN [result |-> ConsistencyResult("failed", <<"expect(200)">>,
                                       Thrown("TypeError"), 0),
          requests |-> << <<"/benefits">> >>]
  ELSE [result |-> ConsistencyResult("running", <<"expect(200)">>, NoError,
                                     1),
        requests |-> << <<"/benefits">>,
                        <<"/benefits/", FirstElement(l.items).id>> >>]

\* Lines 78-83, from the settling of the second await: .expect(200), then
\* expect(listResponse.body.data[0].name).toBe(detailResponse.body.data.name).
BenefitDetail(l, d) ==
  IF d \in AwaitFailures
    THEN AwaitFailed(ConsistencyTest, "none", <<"expect(200)">>, "/benefits",
                     d)
  ELSE IF d.status # 200
    THEN ConsistencyResult("failed", <<"expect(200)", "expect(200)">>,
                           Thrown("expect-status"), 0)
  ELSE IF ~d.hasData
    THEN ConsistencyResult("failed", <<"expect(200)", "expect(200)">>,
                           Thrown("TypeError"), 0)
  ELSE LET same == FirstElement(l.items).name = d.name
       IN  ConsistencyResult(IF same THEN "passed" ELSE "failed",
                             <<"expect(200)", "expect(200)",
                               "list name toBe detail name">>,
                             IF same THEN NoError
                                     ELSE Thrown("expect-dependent"), 0)

\* The runner enters the body, after the workflow tests of the file that
\* were selected: GET /benefits is issued and the body suspends.
RequestBenefitsList ==
  /\ After(ConsistencyTest)
  /\ pc' = "awaiting list"
  /\ last' = ConsistencyResult("running", <<>>, NoError, 1)
  /\ input' = [kind |-> "consistency", list |-> NoList, detail |-> NoDetail,
               requests |-> << <<"/benefits">> >>]
  /\ UNCHANGED <<wf, batch, unit, k6, page>>

\* The first await settles (or the runner gives up on it): the test ends
\* failed, or the detail request is issued and the body suspends again.
BenefitsListResponse(l) ==
  /\ pc = "awaiting list"
  /\ LET o == BenefitsList(l)
     IN  /\ pc' = IF o.result.status = "running" THEN "awaiting detail"
                                                 ELSE "idle"
         /\ last' = o.result
         /\ input' = [input EXCEPT !.list = l, !.requests = o.requests]
  /\ UNCHANGED <<wf, batch, unit, k6, page>>

\* The second await settles (or the runner gives up on it).
BenefitDetailResponse(d) ==
  /\ pc = "awaiting detail"
  /\ pc' = "idle"
  /\ last' = BenefitDetail(input.list, d)
  /\ input' = [input EXCEPT !.detail = d]
  /\ UNCHANGED <<wf, batch, unit, k6, page>>

----------------------------------------------------------------------------
(* 'should get facility details': two calls of handleResponseOrSkip *)

\* The response of GET /facilities: body.data is an array of { id }, or is
\* not an array.
FacilityListResponses ==
  { [present |-> TRUE, status |-> s, dataArr |-> TRUE, ids |-> l] :
      s \in WfStatuses, l \in IdLists(MaxList) }
  \cup { [present |-> TRUE, status |-> s, dataArr |-> FALSE, ids |-> <<>>] :
           s \in WfStatuses }

\* The response of GET /facilities/:id: the properties of body.data, or a
\* body without data.
FacilityDetailResponses ==
  { [present |-> TRUE, status |-> s, hasData |-> TRUE, props |-> p] :
      s \in WfStatuses, p \in SUBSET {"id", "name", "services"} }
  \cup { [present |-> TRUE, status |-> s, hasData |-> FALSE, props |-> {}] :
           s \in WfStatuses }

\* No detail request was issued.
NoFacilityDetail ==
  [present |-> FALSE, status |-> -1, hasData |-> FALSE, props |-> {}]

FacilityAsserts ==
  << "body toHaveProperty data", "data toHaveProperty id",
     "data toHaveProperty name", "data toHaveProperty services" >>

FacilityHolds(a, d) ==
  CASE a = "body toHaveProperty data"     -> d.hasData
    [] a = "data toHaveProperty id"       -> d.hasData /\ "id" \in d.props
    [] a = "data toHaveProperty name"     -> d.hasData /\ "name" \in d.props
    [] a = "data toHaveProperty services" ->
         d.hasData /\ "services" \in d.props

\* 'should get facility details'. `calls` are the labels handed to
\* handleResponseOrSkip, in order, and `requests` the number of requests
\* issued.
FacilityDetails(l, d) ==
  LET t == "should get facility details"
      h1 == handleResponseOrSkip(l, 200, "/facilities")
  IN  IF l \in AwaitFailures
        THEN [result |-> AwaitFailed(t, "not called", <<>>, "/facilities", l),
              calls |-> <<>>, requests |-> 1]
      ELSE IF h1.threw
        THEN [result |-> Result(t, "failed", FALSE, "throw", <<>>, h1.log,
                                h1.error, "/facilities", 0),
              calls |-> << <<"/facilities">> >>, requests |-> 1]
      ELSE IF ~h1.ret
        THEN [result |-> Result(t, "passed", TRUE, "false", <<>>, h1.log,
                                NoError, "/facilities", 0),
              calls |-> << <<"/facilities">> >>, requests |-> 1]
      ELSE IF ~(l.dataArr /\ Len(l.ids) > 0)
        THEN [result |-> Result(t, "passed", FALSE, "true", <<>>, h1.log,
                                NoError, "/facilities", 0),
              calls |-> << <<"/facilities">> >>, requests |-> 1]
      ELSE
        LET label == <<"/facilities/", l.ids[1]>>
            calls == << <<"/facilities">>, label >>
            h2    == handleResponseOrSkip(d, 200, label)
            failing == { i \in DOMAIN FacilityAsserts :
                           ~FacilityHolds(FacilityAsserts[i], d) }
            first == CHOOSE i \in failing : \A j \in failing : i <= j
        IN  IF d \in AwaitFailures
              THEN [result |-> [AwaitFailed(t, "true", <<>>, label, d)
                                  EXCEPT !.log = h1.log],
                    calls |-> << <<"/facilities">> >>, requests |-> 2]
            ELSE IF h2.threw
              THEN [result |-> Result(t, "failed", FALSE, "throw", <<>>,
                                      h1.log \o h2.log, h2.error, label, 0),
                    calls |-> calls, requests |-> 2]
            ELSE IF ~h2.ret
              THEN [result |-> Result(t, "passed", TRUE, "false", <<>>,
                                      h1.log \o h2.log, NoError, label, 0),
                    calls |-> calls, requests |-> 2]
            ELSE IF failing = {}
              THEN [result |-> Result(t, "passed", FALSE, "true",
                                      FacilityAsserts, h1.log \o h2.log,
                                      NoError, label, 0),
                    calls |-> calls, requests |-> 2]
            ELSE [result |-> Result(t, "failed", FALSE, "true",
                                    SubSeq(FacilityAsserts, 1, first),
                                    h1.log \o h2.log,
                                    Thrown("expect-dependent"), label, 0),
                  calls |-> calls, requests |-> 2]

RunFacilityDetails(l, d) ==
  LET o == FacilityDetails(l, d)
  IN  /\ o.requests = 1 <=> d = NoFacilityDetail
      /\ RunSingle(o.result,
                   [kind |-> "facility", list |-> l, detail |-> d,
                    calls |-> o.calls])

----------------------------------------------------------------------------
(* Single-test actions of the UI and contract checks *)

RunLoginFormElements(n, formCount) ==
  RunSingle(LoginFormElements(n, formCount),
            [kind |-> "ui", page |-> n, formCount |-> formCount])

RunIdentityProviderOptions(n, env, loginGovVisible, mhvVisible) ==
  /\ n.url # SignInUrl => ~loginGovVisible /\ ~mhvVisible
  /\ RunSingle(IdentityProviderOptions(n, env, loginGovVisible, mhvVisible),
               [kind |-> "ui", page |-> n, env |-> env,
                mismatch |-> ~(loginGovVisible \/ mhvVisible)])

RunSessionTimeout(n, n2) ==
  RunSingle(SessionTimeout(n, n2),
            [kind |-> "ui", page |-> n, page2 |-> n2])

\* The tests of accessibility.spec.ts are never entered, so the page handed
\* to them is never navigated; n, the counts and the inputs are what the
\* site would have answered.
RunAxeHomepage(env, axeThrows) ==
  FileNotLoaded(AxeHomepage(env, axeThrows),
            [kind |-> "ui", page |-> [nav |-> "none", url |-> BlankUrl],
             env |-> env, mismatch |-> axeThrows])

RunHeadingHierarchy(n, env, headingCount, h1Count) ==
  FileNotLoaded(HeadingHierarchy(n, env, headingCount, h1Count),
            [kind |-> "ui", page |-> [nav |-> "none", url |-> BlankUrl],
             env |-> env, mismatch |-> h1Count # 1])

RunAriaLabels(n, env, inputs) ==
  FileNotLoaded(AriaLabels(n, env, inputs),
            [kind |-> "ui", page |-> [nav |-> "none", url |-> BlankUrl],
             env |-> env, inputs |-> inputs,
             mismatch |-> \E i \in 1..Min(Len(inputs), AriaInputCap) :
                            ~(inputs[i].ariaLabel \/ inputs[i].labelVisible)])

RunColorContrast(n, env, isArray, count) ==
  FileNotLoaded(ColorContrast(n, env, isArray, count),
            [kind |-> "ui", page |-> [nav |-> "none", url |-> BlankUrl],
             env |-> env, mismatch |-> isArray /\ count > 0])

RunNoAutomaticRedirects(n, env, frameNavigated) ==
  FileNotLoaded(NoAutomaticRedirects(n, env, frameNavigated),
            [kind |-> "ui", page |-> [nav |-> "none", url |-> BlankUrl],
             env |-> env, mismatch |-> frameNavigated])

RunRequestTimeoutBehavior(n, hasBrowser) ==
  RunSingle(RequestTimeoutBehavior(n, hasBrowser),
            [kind |-> "ui", page |-> n, hasBrowser |-> hasBrowser])

\* A body that is not JSON text has no properties.
RunErrorResponseFormat(r, bodyIsJson, errorsIsArray) ==
  /\ ~r.present => ~bodyIsJson
  /\ ~bodyIsJson => r.body = {} /\ ~r.dataArr
  /\ errorsIsArray => bodyIsJson /\ "errors" \in r.body
  /\ RunSingle(ErrorResponseFormat(r, bodyIsJson, errorsIsArray),
               [kind |-> "contract", response |-> r,
                bodyIsJson |-> bodyIsJson])

RunEnforceAuthentication(r) ==
  RunSingle(EnforceAuthentication(r), [kind |-> "contract", response |-> r])

\* A response without the header cannot carry one.
RunValidateCorsHeaders(r, allowOrigin) ==
  /\ ~r.present => allowOrigin = Undefined
  /\ RunSingle(ValidateCorsHeaders(r, allowOrigin),
               [kind |-> "cors", response |-> r,
                allowOrigin |-> allowOrigin])

RunValidateCorsForBrowser(r, allowOrigin) ==
  /\ ~r.present => allowOrigin = Undefined
  /\ RunSingle(ValidateCorsForBrowser(r, allowOrigin),
               [kind |-> "cors", response |-> r,
                allowOrigin |-> allowOrigin])

----------------------------------------------------------------------------
(* Batch-probe tests: N requests issued together and joined by Promise.all *)

\* Array(5) of 'should handle concurrent requests'
ConcurrentRequests == 5

\* Array(10) of 'should rate limit requests appropriately'
RateLimitRequests == 10

\* Array(5) of 'should handle rate limiting appropriately'
ContractRequests == 5

Fulfilled(status, retryAfter) ==
  [settled |-> "fulfilled", status |-> status, retryAfter |-> retryAfter]

\* The request promise rejects: no response (connection refused, reset, ...).
Rejected == [settled |-> "rejected", status |-> 0, retryAfter |-> FALSE]

\* The request is not answered before the runner's test timeout.
Unanswered == [settled |-> "pending", status |-> 0, retryAfter |-> FALSE]

BatchTests ==
  { "should handle concurrent requests",
    "should rate limit requests appropriately",
    "should handle rate limiting appropriately" }

BatchSize(t) ==
  CASE t = "should handle concurrent requests"         -> ConcurrentRequests
    [] t = "should rate limit requests appropriately"  -> RateLimitRequests
    [] t = "should handle rate limiting appropriately" -> ContractRequests

\* How one probe of the batch may settle.
ProbeOutcomes(t) ==
  CASE t = "should handle concurrent requests" ->
         { Fulfilled(s, FALSE) : s \in {200, 204, 404, 500} }
         \cup {Rejected, Unanswered}
    [] t = "should rate limit requests appropriately" ->
         { Fulfilled(s, FALSE) : s \in {200, 404, 429, 500} }
         \cup {Rejected, Unanswered}
    [] t = "should handle rate limiting appropriately" ->
         { Fulfilled(s, FALSE) : s \in {200, 404, 500} }
         \cup { Fulfilled(429, h) : h \in BOOLEAN }
         \cup {Rejected, Unanswered}

\* The outcomes of the N probes, by position in the requests array: the
\* first k settle one way and the others another way.
BatchOutcomes(t) ==
  { [i \in 1..BatchSize(t) |-> IF i <= k THEN a ELSE b] :
      a \in ProbeOutcomes(t), b \in ProbeOutcomes(t), k \in 1..BatchSize(t) }

\* Promise.race in the place of Promise.all: settled by the first probe
\* that completes.
PromiseAll_Race(resp, done) ==
  IF \E i \in done : resp[i].settled = "rejected" THEN "rejected"
  ELSE IF done # {} THEN "fulfilled"
  ELSE "pending"

\* The promise Promise.all(requests) once the probes in `done` have
\* completed: rejected as soon as one of them rejected, fulfilled when all
\* are fulfilled.
PromiseAll(resp, done) ==
  IF \E i \in done : resp[i].settled = "rejected" THEN "rejected"
  ELSE IF done = DOMAIN resp THEN "fulfilled"
  ELSE "pending"

\* responses.find(r => r.status() === 429)
First429(resp) ==
  resp[CHOOSE i \in DOMAIN resp :
         /\ resp[i].status = 429
         /\ \A j \in DOMAIN resp : resp[j].status = 429 => i <= j]

\* The success filter of 'should handle concurrent requests' counting every
\* status below 400.
ConcurrentSuccess_Below400(r) == r.status < 400

\* responses.filter((r) => r.status === 200)
ConcurrentSuccess(r) == r.status = 200

\* 'should handle concurrent requests' after `await Promise.all(requests)`
ConcurrentRequestsAggregate(resp) ==
  LET successCount == Cardinality({ i \in DOMAIN resp : ConcurrentSuccess(resp[i]) })
  IN  [status |-> IF successCount = 5 THEN "passed" ELSE "failed",
       early |-> FALSE, asserts |-> <<"successCount toBe 5">>, log |-> <<>>]

\* 'should rate limit requests appropriately' after the await
RateLimitAggregate(resp) ==
  LET rateLimited == \E i \in DOMAIN resp : resp[i].status = 429
      successful  == \E i \in DOMAIN resp : resp[i].status = 200
      allNotFound == \A i \in DOMAIN resp : resp[i].status = 404
  IN  IF allNotFound
        THEN [status |-> "passed", early |-> TRUE, asserts |-> <<>>,
              log |-> << Warn(<<"Skipping rate limit test: ", "/benefits",
                                " not found">>) >>]
      ELSE [status |-> IF rateLimited \/ successful
                         THEN "passed" ELSE "failed",
            early |-> FALSE,
            asserts |-> <<"rateLimited || successful toBe true">>,
            log |-> <<>>]

\* 'should handle rate limiting appropriately' after the await
ContractRateLimitAggregate(resp) ==
  LET successCount == Cardinality({ i \in DOMAIN resp : resp[i].status < 400 })
      tooManyRequests == \E i \in DOMAIN resp : resp[i].status = 429
  IN  IF ~(successCount > 0)
        THEN [status |-> "failed", early |-> FALSE,
              asserts |-> <<"successCount toBeGreaterThan 0">>,
              log |-> <<>>]
      ELSE IF tooManyRequests
        THEN [status |-> IF First429(resp).retryAfter
                           THEN "passed" ELSE "failed",
              early |-> FALSE,
              asserts |-> <<"successCount toBeGreaterThan 0",
                            "retryAfter toBeTruthy">>,
              log |-> <<>>]
      ELSE [status |-> "passed", early |-> FALSE,
            asserts |-> <<"successCount toBeGreaterThan 0">>, log |-> <<>>]

\* The code after `await Promise.all(requests)` of batch test t, on the
\* array of responses.
Aggregate(t, resp) ==
  CASE t = "should handle concurrent requests" ->
         ConcurrentRequestsAggregate(resp)
    [] t = "should rate limit requests appropriately" ->
         RateLimitAggregate(resp)
    [] t = "should handle rate limiting appropriately" ->
         ContractRateLimitAggregate(resp)

BatchContext(t) ==
  IF t = "should handle rate limiting appropriately"
    THEN "/v1/veterans" ELSE "/benefits"

\* The test body up to `await Promise.all(requests)`: all requests are
\* issued and the test suspends.
IssueBatch(t, resp) ==
  /\ pc = "idle"
  /\ last = NoResult
  /\ pc' = "awaiting"
  /\ batch' = [test |-> t, resp |-> resp, done |-> {}]
  /\ last' = Result(t, "running", FALSE, "none", <<>>, <<>>, NoError,
                    BatchContext(t), BatchSize(t))
  /\ input' = [kind |-> "batch", resp |-> resp]
  /\ UNCHANGED <<wf, unit, k6, page>>

\* Probe i completes. When this settles Promise.all the test resumes: a
\* rejection is rethrown by `await` and fails the test, otherwise the
\* aggregate assertions run on the responses.
CompleteProbe(i) ==
  /\ batch.test # "none"
  /\ i \in DOMAIN batch.resp
  /\ i \notin batch.done
  /\ batch.resp[i] # Unanswered
  /\ LET done == batch.done \cup {i}
         settled == PromiseAll(batch.resp, done)
         pending == Cardinality(DOMAIN batch.resp \ done)
     IN  /\ batch' = [batch EXCEPT !.done = done]
         /\ IF pc = "awaiting" /\ settled = "rejected"
              THEN /\ pc' = "idle"
                   /\ last' = Result(batch.test, "failed", FALSE, "none",
                                     <<>>, <<>>, Thrown("rejected"),
                                     BatchContext(batch.test), pending)
            ELSE IF pc = "awaiting" /\ settled = "fulfilled"
              THEN LET a == Aggregate(batch.test, batch.resp)
                   IN  /\ pc' = "idle"
                       /\ last' = Result(batch.test, a.status, a.early,
                                         "none", a.asserts, a.log,
                                         IF a.status = "failed"
                                           THEN Thrown("expect-dependent")
                                           ELSE NoError,
                                         BatchContext(batch.test), pending)
            ELSE UNCHANGED <<pc, last>>
  /\ UNCHANGED <<input, wf, unit, k6, page>>

\* The runner's test timeout expires while the test is suspended in
\* Promise.all: every probe that is answered in time has completed, the
\* others are still in flight. The test is reported failed; the code after
\* the await has not run.
BatchTimeout ==
  /\ pc = "awaiting"
  /\ \A i \in DOMAIN batch.resp \ batch.done : batch.resp[i] = Unanswered
  /\ pc' = "idle"
  /\ last' = Result(batch.test, "failed", FALSE, "none", <<>>, <<>>,
                    Thrown("timeout"), BatchContext(batch.test),
                    Cardinality(DOMAIN batch.resp \ batch.done))
  /\ UNCHANGED <<input, wf, batch, unit, k6, page>>

----------------------------------------------------------------------------
(* Unit tests of example.test.ts: retryOperation *)

\* Bound of the maxAttempts handed to retryOperation.
MaxAttempts == 4

\* What an invocation of `operation` can do: return a promise that
\* resolves, one that rejects or one that never settles, or throw before
\* returning.
OperationOutcomes == {"resolves", "rejects", "throws", "never"}

\* What `operation` does on each of its invocations.
OperationBehaviours(maxAttempts) == [1..maxAttempts -> OperationOutcomes]

\* The value the k-th invocation of operation resolves to, and the error it
\* rejects with or throws.
ResultOf(k) == <<"result", k>>

ErrorOf(k) == <<"error", k>>

\* retryOperation suspended or settled:
\*   i        : the loop variable
\*   attempts : invocations of operation so far
\*   pc       : "awaiting" in `await operation()`, "sleeping" in the
\*              setTimeout of the catch block, "resolved"/"rejected" once
\*              the promise of retryOperation settled
\*   value    : what the promise settled with
RetryStart(maxAttempts, outcomes) ==
  [kind |-> "retry", maxAttempts |-> maxAttempts, outcomes |-> outcomes,
   i |-> 0, attempts |-> 0, pc |-> "start", value |-> <<Undefined>>]

\* The catch block that never rethrows.
RetryCatch_NeverRethrows(u) == [u EXCEPT !.pc = "sleeping"]

\* catch (error) {
\*   if (i === maxAttempts - 1) throw error;
\*   await new Promise((resolve) => setTimeout(resolve, delayMs)); }
RetryCatch(u) ==
  IF u.i = u.maxAttempts - 1
    THEN [u EXCEPT !.pc = "rejected", !.value = ErrorOf(u.attempts)]
  ELSE [u EXCEPT !.pc = "sleeping"]

\* The loop test and the body up to its suspension: the loop ends and the
\* function returns undefined, or operation is invoked and the function
\* awaits what it returned; an operation that throws is caught at once.
RetryLoop(u) ==
  IF ~(u.i < u.maxAttempts)
    THEN [u EXCEPT !.pc = "resolved", !.value = <<Undefined>>]
  ELSE LET v == [u EXCEPT !.attempts = @ + 1]
       IN  IF v.outcomes[v.attempts] = "throws"
             THEN RetryCatch(v)
           ELSE [v EXCEPT !.pc = "awaiting"]

UnitOnly == UNCHANGED <<pc, last, input, wf, batch, k6, page>>

\* retryOperation(operation, maxAttempts, delayMs) is called: it runs up to
\* its first suspension and returns its promise.
CallRetryOperation(maxAttempts, outcomes) ==
  /\ unit = NoUnit
  /\ unit' = RetryLoop(RetryStart(maxAttempts, outcomes))
  /\ UnitOnly

\* The promise of the pending invocation of operation resolves:
\* `return await operation()`.
OperationResolves ==
  /\ unit.kind = "retry"
  /\ unit.pc = "awaiting"
  /\ unit.outcomes[unit.attempts] = "resolves"
  /\ unit' = [unit EXCEPT !.pc = "resolved", !.value = ResultOf(unit.attempts)]
  /\ UnitOnly

\* The promise of the pending invocation of operation rejects: the catch
\* block runs.
OperationRejects ==
  /\ unit.kind = "retry"
  /\ unit.pc = "awaiting"
  /\ unit.outcomes[unit.attempts] = "rejects"
  /\ unit' = RetryCatch(unit)
  /\ UnitOnly

\* The timer of the catch block fires after delayMs: i++, the loop test
\* and the next invocation of operation run in the same job.
RetryWake ==
  /\ unit.kind = "retry"
  /\ unit.pc = "sleeping"
  /\ unit' = RetryLoop([unit EXCEPT !.i = @ + 1])
  /\ UnitOnly

----------------------------------------------------------------------------
(* Unit tests of example.test.ts: debounce and throttle, on a clock with
   timers *)

\* debounce(callback, 100)
DebounceDelay == 100

\* throttle(callback, 100)
ThrottleLimit == 100

\* setTimeout(() => { expect(callCount)...; done(); }, 150)
CheckAfter == 150

\* Bounds: calls of the wrapped function, and clock steps.
MaxCalls == 4

MaxTicks == 4

\* The clock advances by half the delay of the test.
ClockStep == DebounceDelay \div 2

DebounceDelays == {ClockStep, DebounceDelay}

\* The closure of a wrapped function and the clock:
\*   timer      : pending setTimeout callbacks, each with its due time and
\*                the call whose arguments it holds
\*   inThrottle : the flag of throttle
\*   calls      : calls of the wrapper, each with its time and whether
\*                clearTimeout cancelled a pending timer
\*   invoked    : invocations of fn, each with its time and the call whose
\*                arguments it got
Wrapped(kind, delay) ==
  [kind |-> kind, delay |-> delay, now |-> 0, timer |-> {},
   inThrottle |-> FALSE, calls |-> <<>>, invoked |-> <<>>]

\* The debounced function without clearTimeout.
Debounced_NoClearTimeout(u) ==
  LET n == Len(u.calls) + 1
  IN  [u EXCEPT !.calls = Append(@, [at |-> u.now, cancelled |-> FALSE]),
                !.timer = @ \cup {[due |-> u.now + u.delay, arg |-> n]}]

\* The function returned by debounce:
\*   clearTimeout(timeoutId);
\*   timeoutId = setTimeout(() => fn(...args), delay);
Debounced(u) ==
  LET n == Len(u.calls) + 1
  IN  [u EXCEPT !.calls = Append(@, [at |-> u.now,
                                     cancelled |-> u.timer # {}]),
                !.timer = {[due |-> u.now + u.delay, arg |-> n]}]

\* The function returned by throttle:
\*   if (!inThrottle) { fn(...args); inThrottle = true;
\*                      setTimeout(() => (inThrottle = false), limit); }
Throttled(u) ==
  LET n == Len(u.calls) + 1
      call == [at |-> u.now, cancelled |-> FALSE]
  IN  IF ~u.inThrottle
        THEN [u EXCEPT !.calls = Append(@, call),
                       !.invoked = Append(@, [at |-> u.now, arg |-> n]),
                       !.inThrottle = TRUE,
                       !.timer = @ \cup {[due |-> u.now + u.delay,
                                          arg |-> n]}]
      ELSE [u EXCEPT !.calls = Append(@, call)]

CreateDebounced(delay) ==
  /\ unit = NoUnit
  /\ unit' = Wrapped("debounce", delay)
  /\ UnitOnly

CreateThrottled ==
  /\ unit = NoUnit
  /\ unit' = Wrapped("throttle", ThrottleLimit)
  /\ UnitOnly

DebouncedCall ==
  /\ unit.kind = "debounce"
  /\ Len(unit.calls) < MaxCalls
  /\ unit' = Debounced(unit)
  /\ UnitOnly

ThrottledCall ==
  /\ unit.kind = "throttle"
  /\ Len(unit.calls) < MaxCalls
  /\ unit' = Throttled(unit)
  /\ UnitOnly

\* The callback of debounce's setTimeout runs: () => fn(...args)
DebounceTimerFires ==
  /\ unit.kind = "debounce"
  /\ \E t \in unit.timer :
       /\ t.due <= unit.now
       /\ unit' = [unit EXCEPT
                     !.timer = @ \ {t},
                     !.invoked = Append(@, [at |-> unit.now, arg |-> t.arg])]
  /\ UnitOnly

\* The callback of throttle's setTimeout runs: () => (inThrottle = false)
ThrottleTimerFires ==
  /\ unit.kind = "throttle"
  /\ \E t \in unit.timer :
       /\ t.due <= unit.now
       /\ unit' = [unit EXCEPT !.timer = @ \ {t}, !.inThrottle = FALSE]
  /\ UnitOnly

\* Time passes; a timer that is due runs before the clock moves on.
AdvanceClock ==
  /\ unit.kind \in {"debounce", "throttle"}
  /\ unit.now < MaxTicks * ClockStep
  /\ \A t \in unit.timer : t.due > unit.now
  /\ unit' = [unit EXCEPT !.now = @ + ClockStep]
  /\ UnitOnly

\* The unit test is over: retryOperation settled, or the runner's timeout
\* gave up on an invocation of operation that never settles; or the wrapped
\* function is dropped.
UnitTestEnds ==
  /\ unit # NoUnit
  /\ unit.kind = "retry"
       => \/ unit.pc \in {"resolved", "rejected"}
          \/ unit.pc = "awaiting" /\ unit.outcomes[unit.attempts] = "never"
  /\ unit' = NoUnit
  /\ UnitOnly

----------------------------------------------------------------------------
(* Unit tests of example.test.ts: memoize *)

\* Property names every object literal inherits from Object.prototype; the
\* `in` operator finds them on the prototype chain.
PrototypeKeys == {"toString", "constructor"}

\* The string arguments handed to the memoized function.
MemoArgs == {"test", "va", "toString"}

\* fn(arg) of the wrapped function, and the value an inherited property
\* holds.
FnOf(arg) == <<"fn", arg>>

InheritedValue(key) == <<"Object.prototype", key>>

\* `key in obj` for an object literal with the own keys of obj.
HasProperty(key, obj) == key \in DOMAIN obj \/ key \in PrototypeKeys

\* obj[key]
GetProperty(key, obj) ==
  IF key \in DOMAIN obj THEN obj[key]
  ELSE IF key \in PrototypeKeys THEN InheritedValue(key)
  ELSE <<Undefined>>

\* The closure of memoize(fn): const cache = {}; with the calls made, what
\* each returned, and the arguments fn was invoked with.
MemoStart ==
  [kind |-> "memoize", cache |-> << >>, calls |-> <<>>, fnCalls |-> <<>>]

\* (arg) => { if (arg in cache) return cache[arg];
\*            const result = fn(arg); cache[arg] = result; return result; }
Memoized(u, arg) ==
  IF HasProperty(arg, u.cache)
    THEN [u EXCEPT !.calls = Append(@, [arg |-> arg,
                                        returned |->
                                          GetProperty(arg, u.cache)])]
  ELSE [u EXCEPT !.fnCalls = Append(@, arg),
                 !.cache = [k \in DOMAIN u.cache \cup {arg} |->
                              IF k = arg THEN FnOf(arg) ELSE u.cache[k]],
                 !.calls = Append(@, [arg |-> arg, returned |-> FnOf(arg)])]

CreateMemoized ==
  /\ unit = NoUnit
  /\ unit' = MemoStart
  /\ UnitOnly

MemoizedCall(arg) ==
  /\ unit.kind = "memoize"
  /\ Len(unit.calls) < MaxCalls
  /\ unit' = Memoized(unit, arg)
  /\ UnitOnly

----------------------------------------------------------------------------
(* Unit tests of example.test.ts: validateParams *)

\* Bound of the length of `required`.
MaxRequired == 2

ParamKeys == {"email", "password", "toString"}

\* Values of a parameter: a string, or null, or undefined.
ParamValues == {<<"v">>, <<"null">>, <<Undefined>>}

\* Object literals over ParamKeys.
ParamObjects == UNION { [ks -> ParamValues] : ks \in SUBSET ParamKeys }

RequiredLists == UNION { [1..n -> ParamKeys] : n \in 0..MaxRequired }

\* value == null
IsNullish(v) == v \in {<<"null">>, <<Undefined>>}

\* missing.join(', ')
RECURSIVE Join(_)
Join(keys) ==
  IF keys = <<>> THEN <<>>
  ELSE IF Len(keys) = 1 THEN keys
  ELSE <<Head(keys), ", ">> \o Join(Tail(keys))

\* validateParams(params, required):
\*   missing = required.filter(key => !(key in params) || params[key] == null)
\*   if (missing.length > 0) throw new Error(`Missing ...: ${missing.join}`)
validateParams(params, required) ==
  LET missing == SelectSeq(required,
                   LAMBDA key : \/ ~HasProperty(key, params)
                                \/ IsNullish(GetProperty(key, params)))
  IN  [kind |-> "validateParams", params |-> params, required |-> required,
       threw |-> Len(missing) > 0,
       message |-> IF Len(missing) > 0
                     THEN <<"Missing required parameters: ">> \o Join(missing)
                     ELSE <<>>,
       paramsAfter |-> params]

CallValidateParams(params, required) ==
  /\ unit = NoUnit
  /\ unit' = validateParams(params, required)
  /\ UnitOnly

----------------------------------------------------------------------------
(* Unit tests of example.test.ts: safeJsonParse. A JSON text is a sequence
   of lexemes; "x" is a lexeme that is no JSON token. *)

\* Bound of the elements of the arrays drawn.
MaxElems == 2

JsonStrings == {"a", "b"}

JsonLexemes == {"{", "}", "[", "]", ",", ":", "a", "b", "1", "null", "x"}

JsonNull == [t |-> "null"]

JsonLeaf(tok) ==
  IF tok \in JsonStrings THEN [t |-> "string", s |-> tok]
  ELSE IF tok = "1" THEN [t |-> "number"]
  ELSE JsonNull

\* obj[key] = value on the members of an object, kept ordered by key; a
\* repeated key keeps the value set last.
SetMember(members, key, value) ==
  LET others == SelectSeq(members, LAMBDA m : m.k # key)
      before == SelectSeq(others, LAMBDA m : m.k = "a" /\ key = "b")
      after  == SelectSeq(others, LAMBDA m : m.k = "b" /\ key = "a")
  IN  before \o <<[k |-> key, v |-> value]>> \o after

ParseFailure == [ok |-> FALSE, val |-> JsonNull, rest |-> <<>>]

RECURSIVE ParseValue(_), ParseElements(_, _), ParseMembers(_, _)
\* value := string | number | null | array | object
ParseValue(toks) ==
  IF toks = <<>> THEN ParseFailure
  ELSE IF Head(toks) \in JsonStrings \cup {"1", "null"}
    THEN [ok |-> TRUE, val |-> JsonLeaf(Head(toks)), rest |-> Tail(toks)]
  ELSE IF Head(toks) = "["
    THEN IF Len(toks) >= 2 /\ toks[2] = "]"
           THEN [ok |-> TRUE, val |-> [t |-> "array", items |-> <<>>],
                 rest |-> Tail(Tail(toks))]
         ELSE ParseElements(Tail(toks), <<>>)
  ELSE IF Head(toks) = "{"
    THEN IF Len(toks) >= 2 /\ toks[2] = "}"
           THEN [ok |-> TRUE, val |-> [t |-> "object", members |-> <<>>],
                 rest |-> Tail(Tail(toks))]
         ELSE ParseMembers(Tail(toks), <<>>)
  ELSE ParseFailure

\* elements := value ("," value)* "]"
ParseElements(toks, acc) ==
  LET e == ParseValue(toks)
  IN  IF ~e.ok \/ e.rest = <<>> THEN ParseFailure
      ELSE IF Head(e.rest) = ","
        THEN ParseElements(Tail(e.rest), Append(acc, e.val))
      ELSE IF Head(e.rest) = "]"
        THEN [ok |-> TRUE,
              val |-> [t |-> "array", items |-> Append(acc, e.val)],
              rest |-> Tail(e.rest)]
      ELSE ParseFailure

\* members := string ":" value ("," string ":" value)* "}"
ParseMembers(toks, acc) ==
  IF Len(toks) < 2 \/ Head(toks) \notin JsonStrings \/ toks[2] # ":"
    THEN ParseFailure
  ELSE LET m == ParseValue(Tail(Tail(toks)))
       IN  IF ~m.ok \/ m.rest = <<>> THEN ParseFailure
           ELSE IF Head(m.rest) = ","
             THEN ParseMembers(Tail(m.rest),
                               SetMember(acc, Head(toks), m.val))
           ELSE IF Head(m.rest) = "}"
             THEN [ok |-> TRUE,
                   val |-> [t |-> "object",
                            members |-> SetMember(acc, Head(toks), m.val)],
                   rest |-> Tail(m.rest)]
           ELSE ParseFailure

\* JSON.parse(text): the value, or a SyntaxError.
JsonParse(text) ==
  LET r == ParseValue(text)
  IN  IF r.ok /\ r.rest = <<>> THEN [ok |-> TRUE, val |-> r.val]
      ELSE [ok |-> FALSE, val |-> JsonNull]

\* JSON.stringify(value)
RECURSIVE Serialize(_), SerializeItems(_), SerializeMembers(_)
Serialize(v) ==
  CASE v.t = "string" -> <<v.s>>
    [] v.t = "number" -> <<"1">>
    [] v.t = "null"   -> <<"null">>
    [] v.t = "array"  -> <<"[">> \o SerializeItems(v.items) \o <<"]">>
    [] v.t = "object" -> <<"{">> \o SerializeMembers(v.members) \o <<"}">>

SerializeItems(items) ==
  IF items = <<>> THEN <<>>
  ELSE IF Len(items) = 1 THEN Serialize(items[1])
  ELSE Serialize(items[1]) \o <<",">> \o SerializeItems(Tail(items))

SerializeMembers(members) ==
  IF members = <<>> THEN <<>>
  ELSE LET m == <<members[1].k, ":">> \o Serialize(members[1].v)
       IN  IF Len(members) = 1 THEN m
           ELSE m \o <<",">> \o SerializeMembers(Tail(members))

\* The values drawn: leaves, arrays of leaves, objects of leaves, and arrays
\* and objects holding one of those.
JsonLeaves == { JsonLeaf(tok) : tok \in JsonStrings \cup {"1", "null"} }

ObjectsOver(values) ==
  { [t |-> "object", members |-> <<>>] }
  \cup { [t |-> "object", members |-> <<[k |-> k, v |-> v]>>] :
           k \in JsonStrings, v \in values }
  \cup { [t |-> "object",
          members |-> <<[k |-> "a", v |-> v], [k |-> "b", v |-> w]>>] :
           v \in values, w \in JsonLeaves }

ArraysOver(values) ==
  { [t |-> "array", items |-> <<>>] }
  \cup { [t |-> "array", items |-> <<v>> \o l] :
           v \in values,
           l \in UNION { [1..n -> JsonLeaves] : n \in 0..(MaxElems - 1) } }

JsonFlat == JsonLeaves \cup ObjectsOver(JsonLeaves) \cup ArraysOver(JsonLeaves)

JsonValues == JsonFlat \cup ObjectsOver(JsonFlat) \cup ArraysOver(JsonFlat)

\* A text with lexeme i removed, and with lexeme i replaced.
WithoutLexeme(text, i) ==
  SubSeq(text, 1, i - 1) \o SubSeq(text, i + 1, Len(text))

WithLexeme(text, i, tok) == [text EXCEPT ![i] = tok]

\* safeJsonParse without its try/catch.
safeJsonParse_NoCatch(jsonString) ==
  LET p == JsonParse(jsonString)
  IN  [kind |-> "safeJsonParse", text |-> jsonString, threw |-> ~p.ok,
       returned |-> p.val, log |-> <<>>]

\* safeJsonParse(jsonString):
\*   try { return JSON.parse(jsonString); }
\*   catch (error) { console.warn('JSON parse error:', error); return null; }
safeJsonParse(jsonString) ==
  LET p == JsonParse(jsonString)
  IN  IF p.ok
        THEN [kind |-> "safeJsonParse", text |-> jsonString, threw |-> FALSE,
              returned |-> p.val, log |-> <<>>]
      ELSE [kind |-> "safeJsonParse", text |-> jsonString, threw |-> FALSE,
            returned |-> JsonNull,
            log |-> << Warn(<<"JSON parse error:", "SyntaxError">>) >>]

\* safeJsonParse(JSON.stringify(v)), on the text as it is or damaged.
CallSafeJsonParse(text) ==
  /\ unit = NoUnit
  /\ unit' = safeJsonParse(text)
  /\ UnitOnly

----------------------------------------------------------------------------
(* Unit tests of example.test.ts: deepMerge, on a heap of objects so that
   sharing and mutation show *)

\* The keys of the objects merged, in the order for...in visits them.
MergeKeys == <<"user", "role">>

Prim(v) == [t |-> "prim", v |-> v]

Ref(addr) == [t |-> "ref", addr |-> addr]

Obj(f) == [t |-> "obj", f |-> f]

\* Object literals as trees: every key is absent or holds one of `values`.
TreesOver(values) ==
  { Obj(f) : f \in UNION { [ks -> values] : ks \in SUBSET Range(MergeKeys) } }

\* Targets hold the primitive 1, sources the primitive 2; both may hold
\* null and nest one level.
TargetTrees ==
  TreesOver({Prim(1), JsonNull} \cup TreesOver({Prim(1), JsonNull}))

SourceTrees ==
  TreesOver({Prim(2), JsonNull} \cup TreesOver({Prim(2), JsonNull}))

\* The object literal `tree` built on the heap: nested literals first, then
\* the object itself. Gives the heap and the address of the object.
RECURSIVE Build(_, _), BuildKeys(_, _, _, _)
Build(heap, tree) == BuildKeys(heap, tree, MergeKeys, << >>)

BuildKeys(heap, tree, keys, obj) ==
  IF keys = <<>>
    THEN [heap |-> Append(heap, obj), addr |-> Len(heap) + 1]
  ELSE LET key == Head(keys)
       IN  IF key \notin DOMAIN tree.f
             THEN BuildKeys(heap, tree, Tail(keys), obj)
           ELSE IF tree.f[key].t = "obj"
             THEN LET b == Build(heap, tree.f[key])
                  IN  BuildKeys(b.heap, tree, Tail(keys),
                                [k \in DOMAIN obj \cup {key} |->
                                   IF k = key THEN Ref(b.addr) ELSE obj[k]])
           ELSE BuildKeys(heap, tree, Tail(keys),
                          [k \in DOMAIN obj \cup {key} |->
                             IF k = key THEN tree.f[key] ELSE obj[k]])

\* The tree a value of the heap stands for.
RECURSIVE Deref(_, _)
Deref(heap, value) ==
  IF value.t = "ref"
    THEN Obj([k \in DOMAIN heap[value.addr] |->
                Deref(heap, heap[value.addr][k])])
  ELSE value

\* `result` being the target itself instead of a copy of it.
ShallowCopy_Alias(heap, target) ==
  IF target.t = "ref"
    THEN [heap |-> heap, addr |-> target.addr]
  ELSE [heap |-> Append(heap, << >>), addr |-> Len(heap) + 1]

\* const result = { ...target }: a new object with the own properties of
\* target; a primitive, null or {} spreads to no property.
ShallowCopy(heap, target) ==
  [heap |-> Append(heap, IF target.t = "ref" THEN heap[target.addr]
                                             ELSE << >>),
   addr |-> Len(heap) + 1]

\* result[key] || {}: the value when it is truthy, else a value that
\* spreads to no property.
OrEmpty(obj, key) == IF key \in DOMAIN obj THEN obj[key] ELSE JsonNull

\* deepMerge(target, source) and its for...in loop over the keys left.
RECURSIVE deepMerge(_, _, _), MergeLoop(_, _, _, _)
deepMerge(heap, target, source) ==
  LET c == ShallowCopy(heap, target)
  IN  MergeLoop(c.heap, c.addr, source, MergeKeys)

MergeLoop(heap, result, source, keys) ==
  IF keys = <<>> THEN [heap |-> heap, addr |-> result]
  ELSE LET key == Head(keys)
       IN  IF key \notin DOMAIN heap[source.addr]
             THEN MergeLoop(heap, result, source, Tail(keys))
           ELSE
             LET sv == heap[source.addr][key]
                 m  == deepMerge(heap, OrEmpty(heap[result], key), sv)
                 h  == IF sv.t = "ref" THEN m.heap ELSE heap
                 v  == IF sv.t = "ref" THEN Ref(m.addr) ELSE sv
             IN  MergeLoop(
                   [h EXCEPT ![result] =
                      [k \in DOMAIN h[result] \cup {key} |->
                         IF k = key THEN v ELSE h[result][k]]],
                   result, source, Tail(keys))

\* deepMerge(obj1, obj2) on two object literals.
CallDeepMerge(t, s) ==
  LET bt == Build(<<>>, t)
      bs == Build(bt.heap, s)
      m  == deepMerge(bs.heap, Ref(bt.addr), Ref(bs.addr))
  IN  /\ unit = NoUnit
      /\ unit' = [kind |-> "deepMerge", target |-> Ref(bt.addr),
                  source |-> Ref(bs.addr), before |-> bs.heap,
                  after |-> m.heap, result |-> Ref(m.addr)]
      /\ UnitOnly

----------------------------------------------------------------------------
(* The k6 load-test scripts: the groups of load-test.js and the
   handleSummary of both scripts *)

\* Iterations of the default function followed in one run.
MaxIterations == 2

\* for (let i = 0; i < 20; i++) of 'Rate Limiting Test'.
RateLimitLoop == 20

\* The requests of http.batch in 'Resource Loading'.
BatchRequests == 3

\* The resources fetched in 'Concurrent Users Test'.
ConcurrentResources == 3

\* res.status: 0 when the request got no HTTP response.
K6Statuses == {0, 200, 304, 400, 429, 500}

\* res.timings.duration in ms, one value on each side of the limits tested.
Durations == {120, 750, 2500}

LoadOnly == UNCHANGED <<pc, last, input, wf, batch, unit, page>>

NoSample == [group |-> "none"]

\* What one response added to the metrics: the checks evaluated, the
\* samples given to errorRate and whether successCount was incremented.
Sample(group, status, duration, checks, errorSamples, successAdded, log) ==
  [group |-> group, status |-> status, duration |-> duration,
   checks |-> checks, errorSamples |-> errorSamples,
   successAdded |-> successAdded, log |-> log]

\* k6 starts load-test.js with its custom metrics empty.
StartLoadTest ==
  /\ k6 = NoRun
  /\ k6' = [pc |-> "Homepage Load Test", script |-> "load-test.js",
            iter |-> 0, i |-> 0, success |-> 0, errorsTrue |-> 0,
            errorsTotal |-> 0, sample |-> NoSample]
  /\ LoadOnly

\* The metrics after a response handled as `sample`, the script going on
\* at `next` with loop index i.
Record(sample, next, i) ==
  /\ k6' = [k6 EXCEPT
              !.pc = next, !.i = i, !.sample = sample,
              !.success = @ + (IF sample.successAdded THEN 1 ELSE 0),
              !.errorsTrue =
                @ + Cardinality({ j \in DOMAIN sample.errorSamples :
                                    sample.errorSamples[j] }),
              !.errorsTotal = @ + Len(sample.errorSamples)]
  /\ LoadOnly

\* res.body: null when the request got no HTTP response or the body was
\* discarded, otherwise a string.
K6Bodies == {"null", "empty", "text"}

\* 'Homepage Load Test'. On a null body `r.body.length` of the third check
\* throws a TypeError: check() records the throwing check as failed, after
\* the first two, then the exception leaves check(), the group and the
\* default function, and k6 logs it and ends the iteration; nothing is
\* added to the custom metrics.
HomepageGroup(status, duration, body) ==
  /\ k6.pc = "Homepage Load Test"
  /\ status = 0 => body = "null"
  /\ IF body = "null"
       THEN Record(Sample("Homepage Load Test", status, duration,
                          { <<"status is 200", status = 200>>,
                            <<"page loads within 2 seconds",
                              duration < 2000>>,
                            <<"content is not empty", FALSE>> },
                          <<>>, FALSE, << <<"TypeError">> >>),
                   "iteration end", 0)
     ELSE Record(Sample("Homepage Load Test", status, duration,
                        { <<"status is 200", status = 200>>,
                          <<"page loads within 2 seconds", duration < 2000>>,
                          <<"content is not empty", body # "empty">> },
                        << status # 200 >>, status = 200, <<>>),
                 "API Endpoint Load Test", 0)

\* apiRes.status < 400
ApiSuccess(status) == status < 400

\* A request that got no HTTP response has no headers.
ApiEndpointGroup(status, duration, hasHeaders) ==
  /\ k6.pc = "API Endpoint Load Test"
  /\ status = 0 => ~hasHeaders
  /\ Record(Sample("API Endpoint Load Test", status, duration,
                   { <<"API status is 2xx or 3xx", ApiSuccess(status)>>,
                     <<"API response time < 500ms", duration < 500>>,
                     <<"API has required headers", hasHeaders>> },
                   << status >= 400 >>, ApiSuccess(status), <<>>),
            "Authentication Load Test", 0)

AuthenticationGroup(status, duration) ==
  /\ k6.pc = "Authentication Load Test"
  /\ Record(Sample("Authentication Load Test", status, duration,
                   { <<"login endpoint responds",
                       status \in {200, 400, 401, 403}>>,
                     <<"login endpoint responds quickly", duration < 1000>> },
                   << status >= 500 >>, FALSE, <<>>),
            "Resource Loading", 0)

ResourceLoadingGroup(status, duration) ==
  /\ k6.pc = "Resource Loading"
  /\ Record(Sample("Resource Loading", status, duration,
                   { <<"status is 2xx", status >= 200 /\ status < 300>>,
                     <<"response time < 1s", duration < 1000>> },
                   << status >= 400 >>, FALSE, <<>>),
            IF k6.i + 1 < BatchRequests
              THEN "Resource Loading" ELSE "Rate Limiting Test",
            IF k6.i + 1 < BatchRequests THEN k6.i + 1 ELSE 0)

RateLimitingGroup(status, duration) ==
  /\ k6.pc = "Rate Limiting Test"
  /\ Record(Sample("Rate Limiting Test", status, duration,
                   { <<"rate limit check",
                       IF status = 429 THEN TRUE ELSE status < 500>> },
                   <<>>, FALSE,
                   IF status = 429
                     THEN << <<"Rate limited at request ", k6.i>> >>
                     ELSE <<>>),
            IF k6.i + 1 < RateLimitLoop
              THEN "Rate Limiting Test" ELSE "Concurrent Users Test",
            IF k6.i + 1 < RateLimitLoop THEN k6.i + 1 ELSE 0)

ConcurrentUsersGroup(status, duration) ==
  /\ k6.pc = "Concurrent Users Test"
  /\ Record(Sample("Concurrent Users Test", status, duration,
                   { <<"resource loads", status = 200 \/ status = 304>>,
                     <<"resource loads quickly", duration < 2000>> },
                   << status >= 400 >>, FALSE, <<>>),
            IF k6.i + 1 < ConcurrentResources
              THEN "Concurrent Users Test" ELSE "iteration end",
            IF k6.i + 1 < ConcurrentResources THEN k6.i + 1 ELSE 0)

\* The default function returns; the stages may call it again.
NextIteration ==
  /\ k6.pc = "iteration end"
  /\ k6.script = "load-test.js"
  /\ k6.iter + 1 < MaxIterations
  /\ k6' = [k6 EXCEPT !.pc = "Homepage Load Test", !.iter = @ + 1]
  /\ LoadOnly

\* k6 runs the second script (tests/performance); its requests are not
\* followed, only its end-of-test summary.
StartApiLoadTest ==
  /\ k6 = NoRun
  /\ k6' = [pc |-> "iteration end", script |-> "api-load-test.js"]
  /\ LoadOnly

\* The metrics each script configures thresholds on.
ThresholdMetrics(script) ==
  IF script = "load-test.js"
    THEN {"http_req_duration", "errors", "http_req_failed"}
  ELSE {"response_time", "api_errors", "http_req_failed"}

\* The metrics each handleSummary reads a field of.
SummaryMetrics(script) ==
  IF script = "load-test.js"
    THEN {"http_reqs", "success", "errors", "api_duration"}
  ELSE {"http_reqs", "successful_requests", "api_errors", "response_time"}

\* The summary data handed to handleSummary: the metrics in data.metrics,
\* whether data.thresholds is there, and for each metric with thresholds
\* whether they were all satisfied.
SummaryData(script) ==
  [metrics : SUBSET (SummaryMetrics(script) \cup ThresholdMetrics(script)),
   hasThresholds : BOOLEAN,
   ok : [ThresholdMetrics(script) -> BOOLEAN]]

\* handleSummary of load-test.js: reading a field of a metric that is not
\* there raises a TypeError; the thresholds line tests data.metrics
\* .http_req_duration for truthiness.
handleSummary(data) ==
  IF ~(SummaryMetrics("load-test.js") \subseteq data.metrics)
    THEN [threw |-> TRUE, thresholds |-> "none"]
  ELSE [threw |-> FALSE,
        thresholds |-> IF "http_req_duration" \in data.metrics
                         THEN "PASSED" ELSE "FAILED"]

\* handleSummary of the second script: Object.keys(data.thresholds).every(
\* key => data.thresholds[key].ok).
handleSummaryApi(data) ==
  IF ~(SummaryMetrics("api-load-test.js") \subseteq data.metrics)
     \/ ~data.hasThresholds
    THEN [threw |-> TRUE, thresholds |-> "none"]
  ELSE [threw |-> FALSE,
        thresholds |->
          IF \A key \in ThresholdMetrics("api-load-test.js") : data.ok[key]
            THEN "PASSED" ELSE "FAILED"]

\* The end of the test: k6 calls the script's handleSummary.
HandleSummary(data) ==
  /\ k6.pc = "iteration end"
  /\ k6' = [pc |-> "summarised", script |-> k6.script, data |-> data,
            summary |-> IF k6.script = "load-test.js"
                          THEN handleSummary(data)
                          ELSE handleSummaryApi(data)]
  /\ LoadOnly

LoadTestEnds ==
  /\ k6.pc = "summarised"
  /\ k6' = NoRun
  /\ LoadOnly

----------------------------------------------------------------------------
(* homepage.spec.ts: 'should load without console errors' *)

\* Console messages the page emits during one test.
MaxMessages == 2

PageOnly == UNCHANGED <<pc, last, input, wf, batch, unit, k6>>

\* msg.type()
ConsoleTypes == {"error", "warning", "log"}

\* msg.text(), as its words.
ConsoleTexts ==
  { <<"Uncaught", "ReferenceError:", "x", "is", "not", "defined">>,
    <<"TypeError:", "a", "is", "undefined">>,
    <<"Failed", "to", "load", "resource">> }

\* err.includes(word)
Includes(text, word) == word \in Range(text)

\* The runner starts the test: beforeEach calls page.goto and the document
\* begins to load.
StartHomepageTest ==
  /\ page = NoPage
  /\ page' = [pc |-> "goto", emitted |-> <<>>, errors |-> <<>>,
              status |-> "running"]
  /\ PageOnly

\* The page writes to its console. A message reaches the test only through
\* the listener, and only once page.on('console') has registered it.
ConsoleMessage(type, text) ==
  /\ page.pc \in {"goto", "domcontentloaded", "listening"}
  /\ Len(page.emitted) < MaxMessages
  /\ page' = [page EXCEPT
                !.emitted = Append(@, [type |-> type, text |-> text,
                                       at |-> page.pc]),
                !.errors = IF page.pc = "listening" /\ type = "error"
                             THEN Append(@, text) ELSE @]
  /\ PageOnly

\* DOMContentLoaded: page.goto resolves and beforeEach returns.
GotoResolves ==
  /\ page.pc = "goto"
  /\ page' = [page EXCEPT !.pc = "domcontentloaded"]
  /\ PageOnly

\* The navigation fails: beforeEach throws and the test fails.
GotoRejects ==
  /\ page.pc = "goto"
  /\ page' = [page EXCEPT !.pc = "done", !.status = "failed"]
  /\ PageOnly

\* The test body starts: errors = [] and page.on('console', ...).
RegisterListener ==
  /\ page.pc = "domcontentloaded"
  /\ page' = [page EXCEPT !.pc = "listening", !.errors = <<>>]
  /\ PageOnly

\* errors.filter(err => err.includes('Uncaught') ||
\* err.includes('TypeError'))
CriticalErrors(errors) ==
  SelectSeq(errors, LAMBDA err :
    Includes(err, "Uncaught") \/ Includes(err, "TypeError:"))

\* waitForLoadState('networkidle') resolves and the assertion runs.
NetworkIdle ==
  /\ page.pc = "listening"
  /\ page' = [page EXCEPT
                !.pc = "done",
                !.status = IF Len(CriticalErrors(page.errors)) = 0
                             THEN "passed" ELSE "failed"]
  /\ PageOnly

\* waitForLoadState('networkidle') times out: the test fails.
NetworkIdleTimesOut ==
  /\ page.pc = "listening"
  /\ page' = [page EXCEPT !.pc = "done", !.status = "failed"]
  /\ PageOnly

HomepageTestEnds ==
  /\ page.pc = "done"
  /\ page' = NoPage
  /\ PageOnly

----------------------------------------------------------------------------

Init ==
  /\ pc = "idle"
  /\ last = NoResult
  /\ input = NoInput
  /\ wf = WfInit
  /\ batch = NoBatch
  /\ unit = NoUnit
  /\ k6 = NoRun
  /\ page = NoPage

\* The runner process exits; the next invocation starts from loaded modules.
NewInvocation ==
  /\ pc = "idle"
  /\ last # NoResult
  /\ pc' = "idle"
  /\ last' = NoResult
  /\ input' = NoInput
  /\ wf' = WfInit
  /\ batch' = NoBatch
  /\ UNCHANGED <<unit, k6, page>>

FixtureNavigations == Navigations(BlankUrl, SignInUrl)

HomeNavigations ==
  Navigations(BlankUrl, HomeUrl) \cup {[nav |-> "ok", url |-> ElsewhereUrl]}

\* An input of the form carries an aria-label, has a visible <label>, or
\* neither.
InputKinds ==
  { [ariaLabel |-> TRUE,  labelVisible |-> FALSE],
    [ariaLabel |-> FALSE, labelVisible |-> TRUE],
    [ariaLabel |-> FALSE, labelVisible |-> FALSE] }

FormInputs == UNION { [1..k -> InputKinds] : k \in 0..MaxInputs }

\* The tests followed whose body awaits one probe, or two with nothing
\* shared in between.
SingleTests ==
  (Range(ComprehensiveApiTests) \cup Range(ApiContractTests)
     \cup Range(LoginTests))

Next ==
  \/ \E t \in SingleTests : EnterTest(t)
  \/ \E t \in ApiTests :
       Entered(t) /\ \E r \in ApiResponses : RunApiCheck(t, r)
  \/ Entered("should display login form elements")
       /\ \E n \in FixtureNavigations, c \in 0..MaxCount :
            RunLoginFormElements(n, IF n.url = SignInUrl THEN c ELSE 0)
  \/ Entered("should display identity provider options if applicable")
       /\ \E n \in FixtureNavigations, env \in Envs, a, b \in BOOLEAN :
            RunIdentityProviderOptions(n, env, a, b)
  \/ Entered("should handle session timeout appropriately")
       /\ \E n \in FixtureNavigations :
            \E n2 \in Navigations(n.url, DashboardUrl) :
              RunSessionTimeout(n, n2)
  \/ Fresh /\ \E env \in Envs, axeThrows \in BOOLEAN :
       RunAxeHomepage(env, axeThrows)
  \/ Fresh /\ \E n \in HomeNavigations, env \in Envs, c \in 0..MaxCount :
       \E h1 \in 0..c : RunHeadingHierarchy(n, env, c, h1)
  \/ Fresh /\ \E n \in FixtureNavigations, env \in Envs :
       \E inputs \in IF n.nav = "ok" THEN FormInputs ELSE {<<>>} :
         RunAriaLabels(n, env, inputs)
  \/ Fresh /\ \E n \in HomeNavigations, env \in Envs, isArray \in BOOLEAN,
                c \in 0..MaxCount : RunColorContrast(n, env, isArray, c)
  \/ Fresh /\ \E n \in HomeNavigations, env \in Envs, f \in BOOLEAN :
       RunNoAutomaticRedirects(n, env, f)
  \/ Entered("should validate request timeout behavior")
       /\ \E hasBrowser \in BOOLEAN :
            \E n \in IF hasBrowser THEN Navigations(BlankUrl, VeteransUrl)
                                 ELSE {[nav |-> "ok", url |-> BlankUrl]} :
              RunRequestTimeoutBehavior(n, hasBrowser)
  \/ Entered("should validate error response format")
       /\ \E r \in ApiResponses, bodyIsJson, errorsIsArray \in BOOLEAN :
            RunErrorResponseFormat(r, bodyIsJson, errorsIsArray)
  \/ Entered("should enforce authentication on protected endpoints")
       /\ \E r \in ApiResponses : RunEnforceAuthentication(r)
  \/ Entered("should validate CORS headers")
       /\ \E r \in ApiResponses, o \in AllowOrigins :
            RunValidateCorsHeaders(r, o)
  \/ Entered("should validate CORS headers for browser requests")
       /\ \E r \in ApiResponses, o \in AllowOrigins :
            RunValidateCorsForBrowser(r, o)
  \/ Entered("should get facility details")
       /\ \E l \in FacilityListResponses \cup AwaitFailures :
            \E d \in FacilityDetailResponses \cup AwaitFailures
                     \cup {NoFacilityDetail} :
              RunFacilityDetails(l, d)
  \/ NewInvocation

\* A run of the test files whose tests share nothing.
Spec == Init /\ [][Next]_vars

\* A run that also takes integration.spec.ts: the workflow tests over their
\* closure variables, then the consistency test, with the answers to
\* abandoned requests arriving whenever they do.
NextIntegration ==
  \/ Next
  \/ \E k \in 1..5 : RunWorkflowStep(k)
  \/ pc = "requesting"
       /\ \E r \in WorkflowResponses(input.step) : WorkflowResponse(r)
  \/ WorkflowRequestRejects
  \/ WorkflowTimeout
  \/ \E k \in wf.inflight : \E r \in WorkflowResponses(k) :
       LateWorkflowResponse(k, r)
  \/ RequestBenefitsList
  \/ \E l \in ListResponses \cup AwaitFailures : BenefitsListResponse(l)
  \/ \E d \in DetailResponses \cup AwaitFailures : BenefitDetailResponse(d)

SpecIntegration == Init /\ [][NextIntegration]_vars

\* The batch-probe tests on their own.
NextBatch ==
  \/ \E t \in BatchTests : \E resp \in BatchOutcomes(t) : IssueBatch(t, resp)
  \/ \E i \in 1..RateLimitRequests : CompleteProbe(i)
  \/ BatchTimeout
  \/ NewInvocation

SpecBatch == Init /\ [][NextBatch]_vars

\* The unit tests on their own.
NextUnit ==
  \/ \E m \in 0..MaxAttempts : \E o \in OperationBehaviours(m) :
       CallRetryOperation(m, o)
  \/ OperationResolves
  \/ OperationRejects
  \/ RetryWake
  \/ \E d \in DebounceDelays : CreateDebounced(d)
  \/ CreateThrottled
  \/ DebouncedCall
  \/ ThrottledCall
  \/ DebounceTimerFires
  \/ ThrottleTimerFires
  \/ AdvanceClock
  \/ CreateMemoized
  \/ \E arg \in MemoArgs : MemoizedCall(arg)
  \/ UnitTestEnds

\* The event loop runs a promise reaction that is ready and a timer that
\* is due; nothing obliges a test to be started or the clock to be advanced.
SpecUnit ==
  /\ Init /\ [][NextUnit]_vars
  /\ WF_vars(OperationResolves)
  /\ WF_vars(OperationRejects)
  /\ WF_vars(RetryWake)

\* The unit tests of the utilities that take values and give values, on
\* their own: one call per test.
NextPure ==
  \/ unit = NoUnit
     /\ \/ \E params \in ParamObjects, required \in RequiredLists :
             CallValidateParams(params, required)
        \/ \E v \in JsonValues : CallSafeJsonParse(Serialize(v))
        \/ \E v \in JsonFlat : \E i \in 1..Len(Serialize(v)) :
             CallSafeJsonParse(WithoutLexeme(Serialize(v), i))
        \/ \E v \in JsonFlat : \E i \in 1..Len(Serialize(v)) :
             \E tok \in JsonLexemes :
               CallSafeJsonParse(WithLexeme(Serialize(v), i, tok))
        \/ \E t \in TargetTrees, s \in SourceTrees : CallDeepMerge(t, s)
  \/ UnitTestEnds

SpecPure == Init /\ [][NextPure]_vars

\* The load tests on their own.
NextLoad ==
  \/ StartLoadTest
  \/ \E status \in K6Statuses, duration \in Durations, b \in K6Bodies :
       HomepageGroup(status, duration, b)
  \/ \E status \in K6Statuses, duration \in Durations, h \in BOOLEAN :
       ApiEndpointGroup(status, duration, h)
  \/ \E status \in K6Statuses, duration \in Durations :
       AuthenticationGroup(status, duration)
  \/ \E status \in K6Statuses, duration \in Durations :
       ResourceLoadingGroup(status, duration)
  \/ \E status \in K6Statuses, duration \in Durations :
       RateLimitingGroup(status, duration)
  \/ \E status \in K6Statuses, duration \in Durations :
       ConcurrentUsersGroup(status, duration)
  \/ NextIteration
  \/ StartApiLoadTest
  \/ k6.pc = "iteration end"
     /\ \E data \in SummaryData(k6.script) : HandleSummary(data)
  \/ LoadTestEnds

SpecLoad == Init /\ [][NextLoad]_vars

\* The homepage console test on its own.
NextPage ==
  \/ StartHomepageTest
  \/ \E type \in ConsoleTypes, text \in ConsoleTexts :
       ConsoleMessage(type, text)
  \/ GotoResolves
  \/ GotoRejects
  \/ RegisterListener
  \/ NetworkIdle
  \/ NetworkIdleTimesOut
  \/ HomepageTestEnds

SpecPage == Init /\ [][NextPage]_vars

----------------------------------------------------------------------------
(* Properties *)

\* Some console.warn line of the test carries the label.
WarnedWith(label) ==
  \E i \in DOMAIN last.log :
    last.log[i].level = "warn" /\ label \in Range(last.log[i].text)

\* C1 (as claimed): whenever the observed status equals the expectedStatus
\* handed to handleResponseOrSkip, including 404, the check goes on to its
\* dependent assertions: it does not end early, a check that has assertions
\* evaluates one, and a check that passed evaluated all that apply.
C1_ExpectedStatusRunsAssertions ==
  (last.test \in ApiTests /\ input.response.present
     /\ input.response.status = input.expected)
  => /\ ~last.early
     /\ last.helper = "true"
     /\ DependentAsserts(last.test, input.response) # <<>>
          => last.asserts # <<>>
     /\ last.status = "passed"
          => last.asserts = DependentAsserts(last.test, input.response)

\* C2: for a response with status 404, whatever the expectedStatus,
\* handleResponseOrSkip returns false without raising, a warning carrying
\* the endpoint label is logged, and the check ends as passed without
\* having evaluated any assertion.
C2_NotFoundSkips ==
  (last.test \in ApiTests /\ input.response.present
     /\ input.response.status = 404)
  => /\ last.helper = "false"
     /\ last.status = "passed"
     /\ last.early
     /\ last.asserts = <<>>
     /\ last.error = NoError
     /\ WarnedWith(input.endpoint)

C2_Witness ==
  /\ last.test = "should retrieve veteran benefits"
  /\ input.response.present
  /\ input.response.status = 404
  /\ input.expected = 200
  /\ last.early
  /\ Len(last.log) = 1

\* C3 (as claimed): handleResponseOrSkip never ends by raising.
C3_NeverThrows ==
  last.test \in ApiTests => last.helper # "throw"

\* C3 (amended): handleResponseOrSkip returns false when the response is
\* missing or has status 404, returns true when the status is the expected
\* one (and not 404), and raises exactly when the response is there with a
\* status that is neither 404 nor the expected one; the raise fails the
\* check with the expected and the received status. It is not called when
\* the awaited request rejected.
C3_ThrowsExactlyOnMismatch ==
  last.test \in ApiTests =>
    LET r == input.response
        m == handleResponseOrSkip(NoResponse, input.expected, input.endpoint)
    IN  /\ last.helper \in {"false", "true", "throw", "not called"}
        /\ ~m.ret /\ ~m.threw
        /\ last.helper = "not called" <=> r \in AwaitFailures
        /\ last.helper = "false" <=> (r.present /\ r.status = 404)
        /\ last.helper = "true"
             <=> (r.present /\ r.status # 404 /\ r.status = input.expected)
        /\ last.helper = "throw"
             <=> (r.present /\ r.status # 404 /\ r.status # input.expected)
        /\ last.helper = "throw"
             => /\ last.status = "failed"
                /\ last.asserts = <<>>
                /\ last.error = [kind |-> "expect",
                                 expected |-> input.expected,
                                 received |-> r.status]

C3_Witness ==
  /\ last.test = "should prevent XSS attacks"
  /\ input.response.present
  /\ input.response.status = 200
  /\ last.helper = "throw"
  /\ last.status = "failed"

\* C4 (as claimed): every check that ends early without asserting has
\* logged a line carrying the context label of what it probed; this covers
\* the handleResponseOrSkip checks, the appeal-details step and the
\* error-format contract check.
C4_EverySkipPathLogsContext ==
  /\ (/\ last.test \in ApiTests \cup {"should get appeal details",
                                      "should validate error response format"}
      /\ last.early)
     => \E i \in DOMAIN last.log : last.context \in Range(last.log[i].text)
  /\ last.test \in ApiTests
     => LET m == handleResponseOrSkip(NoResponse, input.expected,
                                      input.endpoint)
        IN  \E i \in DOMAIN m.log : input.endpoint \in Range(m.log[i].text)

\* The tests whose page is navigated by the sign-in fixture or, for the ARIA
\* check, by a goto in try/catch.
SignInPageTests ==
  { "should display login form elements",
    "should display identity provider options if applicable",
    "should handle session timeout appropriately",
    "should have proper ARIA labels for form inputs" }

\* C5 (as claimed): when the navigation of the sign-in fixture or of the
\* ARIA-label check fails, the test does not end as passed.
C5_NavigationFailureSurfaced ==
  (last.test \in SignInPageTests /\ input.page.nav # "ok")
  => last.status # "passed"

\* C6 (as claimed): a probe that exceeds its bounded wait fails the check.
C6_TimeoutFailsCheck ==
  (input.kind = "ui" /\ input.page.nav = "timeout") => last.status = "failed"

EnvSensitiveTests ==
  { "should not have accessibility violations on homepage",
    "should have proper heading hierarchy",
    "should have proper ARIA labels for form inputs",
    "should have sufficient color contrast",
    "should have no automatic redirects without warning",
    "should display identity provider options if applicable" }

\* C7 (as claimed): for the environment-sensitive UI checks a mismatch
\* fails the check whenever CI is set; a check that met a mismatch and did
\* not fail ran without CI, ended early and logged a warning.
C7_DowngradeOnlyOutsideCI ==
  (last.test \in EnvSensitiveTests /\ input.mismatch)
  => /\ input.env.CI => last.status = "failed"
     /\ last.status # "failed"
          => /\ ~input.env.CI
             /\ last.early
             /\ \E i \in DOMAIN last.log : last.log[i].level = "warn"

\* C8 (as claimed): the verdict of a workflow test case is the verdict the
\* same test case gives when run alone, on freshly loaded closure
\* variables, for the same probe response.
C8_VerdictIndependentOfEarlierTests ==
  (/\ last.test \in Range(WfTests)
   /\ pc = "idle"
   /\ last.error.kind \notin {"request", "timeout"})
  => last.status =
       WorkflowStep(input.step, WfInit, input.response).out.result.status

\* C9 (as claimed): no aggregate assertion is evaluated while a probe of the
\* batch is in flight, and the test case does not end before every probe
\* has completed.
C9_AllCompleteBeforeTestEnds ==
  last.test \in BatchTests
  => /\ pc = "awaiting" => last.asserts = <<>> /\ last.status = "running"
     /\ pc = "idle" => last.pending = 0

\* The verdict of a batch test as a function of the outcomes alone.
BatchVerdict(t, resp) ==
  IF \E i \in DOMAIN resp : resp[i].settled # "fulfilled" THEN "failed"
  ELSE Aggregate(t, resp).status

\* C9 (amended): no aggregate assertion is evaluated, and no skip taken,
\* before every probe has completed; the test ends with probes in flight
\* only by failing, on a rejected probe or on the runner's timeout, without
\* any aggregate assertion; the verdict depends on the outcomes only, not
\* on their order.
C9_JoinBeforeAggregate ==
  last.test \in BatchTests
  => /\ pc = "awaiting" => last.asserts = <<>> /\ last.status = "running"
     /\ (last.asserts # <<>> \/ last.early \/ last.status = "passed")
          => last.pending = 0
     /\ (pc = "idle" /\ last.pending > 0)
          => /\ last.status = "failed"
             /\ last.error.kind \in {"rejected", "timeout"}
             /\ last.asserts = <<>>
     /\ pc = "idle" => last.status = BatchVerdict(batch.test, batch.resp)

C9_Witness ==
  /\ pc = "idle"
  /\ last.test = "should rate limit requests appropriately"
  /\ last.asserts # <<>>
  /\ last.pending = 0
  /\ batch.done = 1..RateLimitRequests
  /\ \E i, j \in DOMAIN batch.resp : batch.resp[i] # batch.resp[j]

\* A response that is not an error: the request was answered, with a status
\* below 400.
NonError(r) == r.settled = "fulfilled" /\ r.status < 400

\* C10 (as claimed): the concurrent-requests check passes exactly when the
\* number of non-error responses is 5.
C10_PassIffNoneDropped ==
  (pc = "idle" /\ last.test = "should handle concurrent requests")
  => (last.status = "passed"
        <=> Cardinality({ i \in DOMAIN batch.resp : NonError(batch.resp[i]) })
              = ConcurrentRequests)

\* C10 (amended): the concurrent-requests check passes exactly when each of
\* the 5 requests was answered with status 200.
C10_PassIffAll200 ==
  (pc = "idle" /\ last.test = "should handle concurrent requests")
  => (last.status = "passed"
        <=> \A i \in 1..ConcurrentRequests :
              /\ batch.resp[i].settled = "fulfilled"
              /\ batch.resp[i].status = 200)

C10_Witness ==
  /\ pc = "idle"
  /\ last.test = "should handle concurrent requests"
  /\ last.status = "passed"
  /\ batch.done = 1..ConcurrentRequests

\* C11 (as claimed): the rate-limit batch check issues 10 concurrent
\* requests and passes only if at least one of the responses is a 429.
C11_PassesOnlyIfRateLimited ==
  last.test = "should rate limit requests appropriately"
  => /\ Len(batch.resp) = 10
     /\ (pc = "idle" /\ last.status = "passed")
          => \E i \in DOMAIN batch.resp : batch.resp[i].status = 429

\* The checks that probe a protected endpoint without credentials.
UnauthenticatedTests ==
  { "should return 401 for missing authentication",
    "should enforce authentication on protected endpoints" }

\* C12 (as claimed): a check that probes a protected endpoint without
\* credentials passes when the status is 401 and also when it is 403, and
\* fails when the status is 200.
C12_UnauthenticatedAccepts401And403 ==
  (last.test \in UnauthenticatedTests /\ input.response.present)
  => /\ input.response.status \in {401, 403} => last.status = "passed"
     /\ input.response.status = 200 => last.status = "failed"

\* C13: the XSS check never passes on a 200 response (it fails on the
\* status mismatch), and it passes having evaluated its assertion only when
\* the status is 400 and the body has an `errors` property.
C13_XssNeverPassesOn200 ==
  last.test = "should prevent XSS attacks"
  => /\ (input.response.present /\ input.response.status = 200)
          => last.status = "failed"
     /\ (last.status = "passed" /\ last.asserts # <<>>)
          => /\ input.response.present
             /\ input.response.status = 400
             /\ "errors" \in input.response.body

C13_Witness ==
  /\ last.test = "should prevent XSS attacks"
  /\ input.response.status = 400
  /\ "errors" \in input.response.body
  /\ last.status = "passed"
  /\ last.asserts = <<"body toHaveProperty errors">>

\* The checks of the two API test files that probe an endpoint the suite
\* treats as optional (/benefits, /forms, /facilities) and record the
\* response of that probe.
OptionalEndpointChecks ==
  { "should retrieve veteran benefits",
    "should list all facilities",
    "should list all forms" }

\* C14 (as claimed): a 404 on an optional endpoint is downgraded to a
\* warning in every check that probes it, in both test files, and never
\* makes the check fail.
C14_OptionalNotFoundNeverFails ==
  /\ (/\ last.test \in OptionalEndpointChecks
      /\ input.response.present
      /\ input.response.status = 404)
     => /\ last.status # "failed"
        /\ \E i \in DOMAIN last.log : last.log[i].level = "warn"
  /\ (/\ last.test = "benefits list should match individual benefit requests"
      /\ input.list.status = 404)
     => /\ last.status # "failed"
        /\ \E i \in DOMAIN last.log : last.log[i].level = "warn"

\* C15 (as claimed): when the status differs from expectedStatus and no skip
\* rule applies, the check fails and the failure it reports contains the
\* observed status, the expected status and the context label of the probed
\* endpoint.
C15_FailureSurfacesContext ==
  (last.test \in ApiTests /\ last.helper = "throw")
  => /\ last.status = "failed"
     /\ ToString(input.response.status) \in Range(ErrorMessage(last.error))
     /\ ToString(input.expected) \in Range(ErrorMessage(last.error))
     /\ input.endpoint \in Range(ErrorMessage(last.error))

\* The test cases modelled that call handleResponseOrSkip.
HelperCallSites == ApiTests \cup {"should get facility details"}

\* C16: a check that calls handleResponseOrSkip ends as passed or failed and
\* in exactly one of the verdicts pass, pass-by-skip (passed, ended early)
\* and fail; after the helper returned false the check ends as pass-by-skip
\* and after it raised as fail, in both cases without any dependent
\* assertion evaluated; dependent assertions are evaluated only after the
\* helper returned true.
C16_AssertionsOnlyUnderPass ==
  last.test \in HelperCallSites
  => /\ last.status \in {"passed", "failed"}
     /\ last.early => last.status = "passed"
     /\ last.helper \in {"false", "true", "throw", "not called"}
     /\ last.helper = "not called"
          => last.status = "failed" /\ ~last.early /\ last.asserts = <<>>
     /\ last.helper = "false"
          => last.status = "passed" /\ last.early /\ last.asserts = <<>>
     /\ last.helper = "throw"
          => last.status = "failed" /\ ~last.early /\ last.asserts = <<>>
     /\ last.asserts # <<>> => last.helper = "true" /\ ~last.early

\* The second call of 'should get facility details' returned false after
\* the first one returned true.
C16_Witness ==
  /\ last.test = "should get facility details"
  /\ Len(input.calls) = 2
  /\ input.list.status = 200
  /\ input.detail.status = 404
  /\ last.helper = "false"
  /\ last.early
  /\ last.asserts = <<>>

\* C17 (as claimed): the detail probe is issued only after the list probe
\* returned, with the id of the list's first element, and the check passes
\* exactly when the name of that first element equals the name returned by
\* the detail probe.
C17_PassIffNamesAgree ==
  last.test = "benefits list should match individual benefit requests"
  => /\ input.requests[1] = <<"/benefits">>
     /\ Len(input.requests) = 2
          => /\ input.list.items # <<>>
             /\ input.requests[2] = <<"/benefits/", input.list.items[1].id>>
     /\ last.status = "passed"
          <=> /\ Len(input.requests) = 2
              /\ input.detail.hasData
              /\ input.list.items[1].name = input.detail.name

\* C17 (amended): while the list probe is unanswered only the list request
\* has been issued; the detail probe is issued only after the list probe was
\* answered 200 with a non-empty data array, with the id of its first
\* element; the check passes exactly when both probes are answered 200, the
\* detail body has data, and the name of the list's first element equals
\* the name of the detail.
C17_PassIffBothOkAndNamesAgree ==
  last.test = "benefits list should match individual benefit requests"
  => /\ input.requests[1] = <<"/benefits">>
     /\ pc = "awaiting list" => Len(input.requests) = 1
     /\ Len(input.requests) = 2
          <=> /\ input.list.status = 200
              /\ input.list.hasData
              /\ input.list.items # <<>>
     /\ Len(input.requests) = 2
          => input.requests[2] = <<"/benefits/", input.list.items[1].id>>
     /\ last.status = "passed"
          <=> /\ input.list.status = 200
              /\ input.list.hasData
              /\ input.list.items # <<>>
              /\ input.detail.status = 200
              /\ input.detail.hasData
              /\ input.list.items[1].name = input.detail.name

C17_Witness ==
  /\ last.test = "benefits list should match individual benefit requests"
  /\ last.status = "passed"
  /\ Len(input.list.items) = 2
  /\ input.list.items[1].name = "A"
  /\ input.list.items[2].name = "B"
  /\ input.list.items[1].id # input.list.items[2].id
  /\ input.detail.name = "A"
  /\ Len(input.requests) = 2

\* The attempts on which operation resolves.
Successes(u) == { k \in 1..u.maxAttempts : u.outcomes[k] = "resolves" }

FirstSuccess(u) ==
  CHOOSE k \in Successes(u) : \A j \in Successes(u) : k <= j

\* The invocations of operation a call of retryOperation comes to make:
\* attempt k is made when every attempt before it failed.
Invoked(u) ==
  { k \in 1..u.maxAttempts :
      \A j \in 1..(k - 1) : u.outcomes[j] \in {"rejects", "throws"} }

\* Every invocation of operation that is made settles or throws.
EveryAttemptSettles(u) == \A k \in Invoked(u) : u.outcomes[k] # "never"

\* retryOperation never invokes operation more than maxAttempts times; it
\* resolves only with the result of the first successful attempt k, after
\* exactly k invocations; it rejects only when all maxAttempts attempts
\* failed, after exactly maxAttempts invocations, with the last error.
RetrySettlesAsSpecified ==
  (unit.kind = "retry" /\ unit.maxAttempts >= 1)
  => /\ unit.attempts <= unit.maxAttempts
     /\ unit.pc = "resolved"
          => /\ Successes(unit) # {}
             /\ unit.attempts = FirstSuccess(unit)
             /\ unit.value = ResultOf(FirstSuccess(unit))
     /\ unit.pc = "rejected"
          => /\ Successes(unit) = {}
             /\ unit.attempts = unit.maxAttempts
             /\ unit.value = ErrorOf(unit.maxAttempts)

RetrySettled ==
  unit.kind = "retry" /\ unit.pc \in {"resolved", "rejected"}

\* C18 (as claimed): for maxAttempts >= 1 retryOperation settles as
\* specified above (k invocations and the k-th result when attempt k is the
\* first success, maxAttempts invocations and the last error when all
\* fail), and every call of it settles.
C18_RetryOperationAlwaysSettles ==
  /\ []RetrySettlesAsSpecified
  /\ (unit.kind = "retry" /\ unit.maxAttempts >= 1) ~> RetrySettled

\* C18 (amended): for maxAttempts >= 1 retryOperation settles as specified
\* above; a call of it settles when every invocation of operation it makes
\* settles or throws, and never settles when one of them never does.
C18_RetryOperation ==
  /\ []RetrySettlesAsSpecified
  /\ (unit.kind = "retry" /\ unit.maxAttempts >= 1
        /\ EveryAttemptSettles(unit)) ~> RetrySettled
  /\ []((unit.kind = "retry" /\ ~EveryAttemptSettles(unit)) => ~RetrySettled)

\* The scenario of the unit test: two failures, then success.
C18_Witness ==
  /\ unit.kind = "retry"
  /\ unit.maxAttempts = 3
  /\ unit.outcomes = <<"rejects", "rejects", "resolves">>
  /\ unit.pc = "resolved"
  /\ unit.attempts = 3
  /\ unit.value = ResultOf(3)

\* The invocations of fn that got the arguments of call j.
InvocationsOf(j) ==
  { i \in DOMAIN unit.invoked : unit.invoked[i].arg = j }

\* Call j is the last of a burst in which each call arrives less than
\* `delay` after the previous one.
EndsBurstByGap(j) ==
  \/ j = Len(unit.calls)
  \/ unit.calls[j + 1].at - unit.calls[j].at >= unit.delay

\* C19 (as claimed): every burst of calls of the debounced function, each
\* arriving less than `delay` after the previous one, results in exactly
\* one invocation of fn, `delay` after the last call of the burst and not
\* before.
C19_OneInvocationPerBurst ==
  unit.kind = "debounce"
  => /\ \A i \in DOMAIN unit.invoked :
          /\ EndsBurstByGap(unit.invoked[i].arg)
          /\ unit.invoked[i].at
               = unit.calls[unit.invoked[i].arg].at + unit.delay
     /\ \A j \in DOMAIN unit.calls :
          /\ Cardinality(InvocationsOf(j)) <= 1
          /\ (EndsBurstByGap(j) /\ unit.now > unit.calls[j].at + unit.delay)
               => Cardinality(InvocationsOf(j)) = 1

\* Call j is not followed by a call that runs before the timer callback.
EndsBurst(j) ==
  \/ j = Len(unit.calls)
  \/ ~unit.calls[j + 1].cancelled

\* C19 (amended): a burst ends with the first call that is not followed by
\* another call before the pending timer callback has run; a call arriving
\* less than `delay` after the previous one always extends the burst, and
\* so does a call arriving exactly `delay` after it that runs before the
\* callback. Every burst results in exactly one invocation of fn, `delay`
\* after its last call and not before, with the arguments of that call.
C19_OneInvocationPerUninterruptedBurst ==
  unit.kind = "debounce"
  => /\ \A i \in DOMAIN unit.invoked :
          /\ EndsBurst(unit.invoked[i].arg)
          /\ unit.invoked[i].at
               = unit.calls[unit.invoked[i].arg].at + unit.delay
     /\ \A j \in DOMAIN unit.calls :
          /\ Cardinality(InvocationsOf(j)) <= 1
          /\ (EndsBurst(j) /\ unit.now > unit.calls[j].at + unit.delay)
               => Cardinality(InvocationsOf(j)) = 1
          /\ ~EndsBurst(j) => InvocationsOf(j) = {}
          /\ j > 1 =>
               LET gap == unit.calls[j].at - unit.calls[j - 1].at
               IN  /\ gap < unit.delay => unit.calls[j].cancelled
                   /\ unit.calls[j].cancelled => gap <= unit.delay

\* The scenario of the unit test: three calls back to back, one invocation
\* 100 ms later.
C19_Witness ==
  /\ unit.kind = "debounce"
  /\ unit.delay = DebounceDelay
  /\ Len(unit.calls) = 3
  /\ \A j \in 1..3 : unit.calls[j].at = 0
  /\ unit.now = CheckAfter
  /\ unit.invoked = << [at |-> DebounceDelay, arg |-> 3] >>

\* C20 (as claimed): four calls of the function throttled with limit 100,
\* back to back at time 0, result by time 150 in more than one and fewer
\* than four invocations of fn.
C20_ThrottleInvokesMoreThanOnce ==
  (/\ unit.kind = "throttle"
   /\ unit.delay = ThrottleLimit
   /\ Len(unit.calls) = 4
   /\ \A j \in DOMAIN unit.calls : unit.calls[j].at = 0
   /\ unit.now = CheckAfter)
  => /\ Len(unit.invoked) > 1
     /\ Len(unit.invoked) < 4

\* C21 (as claimed): over any sequence of calls with string arguments every
\* call memoized(arg) returns fn(arg), and fn is invoked exactly once for
\* each distinct argument that occurs in the sequence.
C21_MemoizeReturnsFnOnce ==
  unit.kind = "memoize"
  => /\ \A i \in DOMAIN unit.calls :
          unit.calls[i].returned = FnOf(unit.calls[i].arg)
     /\ \A i \in DOMAIN unit.calls :
          Cardinality({ j \in DOMAIN unit.fnCalls :
                          unit.fnCalls[j] = unit.calls[i].arg }) = 1

\* The keys of `required`, in order, that are absent from params or map to
\* null/undefined.
AbsentOrNullish(params, required) ==
  SelectSeq(required,
            LAMBDA key : key \notin DOMAIN params \/ IsNullish(params[key]))

\* C22 (as claimed): validateParams throws exactly when some key of
\* `required` is absent from params or maps to null/undefined; the message
\* lists exactly those keys in the order of `required`; otherwise it
\* returns without throwing; params is not changed.
C22_ThrowsIffKeyMissing ==
  unit.kind = "validateParams"
  => LET missing == AbsentOrNullish(unit.params, unit.required)
     IN  /\ unit.threw <=> missing # <<>>
         /\ unit.threw
              => unit.message
                   = <<"Missing required parameters: ">> \o Join(missing)
         /\ unit.paramsAfter = unit.params

\* Each value drawn, after its JSON text.
SerializedValues == { <<Serialize(v), v>> : v \in JsonValues }

\* C23: safeJsonParse never throws; on a valid JSON text it returns the
\* parsed value and logs nothing (so the serialisation of a value is parsed
\* back to that value); on any other text, such as one holding a lexeme
\* that is no JSON token, it logs one warning and returns null.
C23_SafeJsonParseNeverThrows ==
  unit.kind = "safeJsonParse"
  => /\ ~unit.threw
     /\ JsonParse(unit.text).ok
          => /\ unit.returned = JsonParse(unit.text).val
             /\ unit.log = <<>>
     /\ ~JsonParse(unit.text).ok
          => /\ unit.returned = JsonNull
             /\ Len(unit.log) = 1
             /\ unit.log[1].level = "warn"
     /\ \A p \in SerializedValues :
          unit.text = p[1] => unit.returned = p[2] /\ unit.log = <<>>
     /\ ("x" \in Range(unit.text) \/ unit.text = <<>>)
          => unit.returned = JsonNull /\ unit.log # <<>>

C23_Witness ==
  /\ unit.kind = "safeJsonParse"
  /\ unit.text = <<"{", "a", ":", "x", "}">>
  /\ unit.returned = JsonNull
  /\ ~unit.threw
  /\ Len(unit.log) = 1

\* The merge as stated: every key of either object; a key whose source
\* value is an object holds the merge of the two values (a target value that
\* is no object counting as {}), any other key of source holds the source
\* value, a key of target alone keeps the target value.
RECURSIVE MergedTree(_, _)
MergedTree(t, s) ==
  LET tf == IF t.t = "obj" THEN t.f ELSE << >>
  IN  Obj([k \in DOMAIN tf \cup DOMAIN s.f |->
             IF k \notin DOMAIN s.f THEN tf[k]
             ELSE IF s.f[k].t = "obj"
               THEN MergedTree(IF k \in DOMAIN tf THEN tf[k] ELSE JsonNull,
                               s.f[k])
             ELSE s.f[k]])

\* C24: deepMerge(target, source) returns a new object that is the merge
\* stated above of target and source, and leaves every object reachable
\* from target or source as it was.
C24_DeepMerge ==
  unit.kind = "deepMerge"
  => LET t == Deref(unit.before, unit.target)
         s == Deref(unit.before, unit.source)
         r == Deref(unit.after, unit.result)
     IN  /\ r = MergedTree(t, s)
         /\ DOMAIN r.f = DOMAIN t.f \cup DOMAIN s.f
         /\ unit.result.addr > Len(unit.before)
         /\ \A a \in DOMAIN unit.before : unit.after[a] = unit.before[a]
         /\ Deref(unit.after, unit.target) = t
         /\ Deref(unit.after, unit.source) = s

\* The scenario of the unit test: both objects nest under the same key.
C24_Witness ==
  /\ unit.kind = "deepMerge"
  /\ Deref(unit.before, unit.target)
       = Obj([k \in {"user"} |-> Obj([j \in {"user"} |-> Prim(1)])])
  /\ Deref(unit.before, unit.source)
       = Obj([k \in {"user"} |-> Obj([j \in {"role"} |-> Prim(2)])])
  /\ Deref(unit.after, unit.result)
       = Obj([k \in {"user"} |->
                Obj([j \in {"user", "role"} |->
                       IF j = "user" THEN Prim(1) ELSE Prim(2)])])

\* The recorded test ran on an OPTIONS probe answered without a usable
\* access-control-allow-origin header.
CorsHeaderMissing ==
  /\ input.kind = "cors"
  /\ input.response.present
  /\ ~Truthy(input.allowOrigin)

CorsWarning ==
  Warn(<<"CORS header missing on ", "OPTIONS /forms",
         ", skipping assertion">>)

\* C25: on a probe answered without the access-control-allow-origin header
\* the api-contracts check fails on its assertion, while the
\* comprehensive-api check, once the status is the expected 200, warns and
\* passes without evaluating any assertion; the same probe thus fails one
\* check and passes the other, and no run of the comprehensive-api check
\* fails on its final assertion.
C25_MissingCorsHeaderInconsistent ==
  /\ (CorsHeaderMissing
      /\ last.test = "should validate CORS headers for browser requests")
     => /\ last.status = "failed"
        /\ last.error = Thrown("expect-dependent")
        /\ ValidateCorsHeaders(input.response, input.allowOrigin).error
             # Thrown("expect-dependent")
  /\ (CorsHeaderMissing /\ last.test = "should validate CORS headers"
      /\ input.response.status = 200)
     => /\ last.status = "passed"
        /\ last.asserts = <<>>
        /\ CorsWarning \in Range(last.log)
        /\ ValidateCorsForBrowser(input.response, input.allowOrigin).status
             = "failed"
  /\ last.test = "should validate CORS headers"
     => /\ last.error # Thrown("expect-dependent")
        /\ last.asserts # <<>> => Truthy(input.allowOrigin)
        /\ last.status = "failed"
           => \/ /\ last.helper = "throw"
                 /\ input.response.status \notin {200, 404}
              \/ /\ last.helper = "not called"
                 /\ input.response \in AwaitFailures

\* The comprehensive-api check on a 200 answer without the header.
C25_Witness ==
  /\ CorsHeaderMissing
  /\ input.allowOrigin = Undefined
  /\ input.response.status = 200
  /\ last.test = "should validate CORS headers"
  /\ last.status = "passed"
  /\ last.early
  /\ CorsWarning \in Range(last.log)

\* Every threshold configured by the script that was summarised was
\* satisfied.
AllThresholdsSatisfied ==
  \A m \in ThresholdMetrics(k6.script) : k6.data.ok[m]

\* C26 (as claimed): in both load-test scripts the summary reports the
\* thresholds line as passed if and only if every configured threshold was
\* satisfied.
C26_ThresholdsLineIffAllSatisfied ==
  (k6.pc = "summarised" /\ ~k6.summary.threw)
  => (k6.summary.thresholds = "PASSED" <=> AllThresholdsSatisfied)

\* C27 (as claimed): in 'API Endpoint Load Test' a response is counted as a
\* success (successCount incremented, a false sample given to errorRate,
\* the check 'API status is 2xx or 3xx' passing) only if its status is in
\* 200..399.
C27_SuccessOnlyFrom200To399 ==
  (k6.pc \notin {"none", "summarised"} /\ k6.script = "load-test.js"
   /\ k6.sample.group = "API Endpoint Load Test")
  => ((\/ k6.sample.successAdded
       \/ k6.sample.errorSamples = << FALSE >>
       \/ <<"API status is 2xx or 3xx", TRUE>> \in k6.sample.checks)
      => k6.sample.status \in 200..399)

\* A console message of type error whose text contains 'Uncaught' or
\* 'TypeError'.
IsCritical(m) ==
  /\ m.type = "error"
  /\ Includes(m.text, "Uncaught") \/ Includes(m.text, "TypeError:")

\* C28 (as claimed): the homepage console-error check fails whenever a
\* critical console error was emitted at any point of the page load,
\* before DOMContentLoaded included.
C28_FailsOnAnyCriticalError ==
  (page.pc = "done"
   /\ \E i \in DOMAIN page.emitted : IsCritical(page.emitted[i]))
  => page.status = "failed"

====
